---- MODULE Spec2Model ----
(***************************************************************************)
(* Model of the rubric scoring engine of src/EAI/speech_evaluator.py       *)
(* (class SpeechEvaluator): the constructor, the text-analysis helpers,    *)
(* the five dimension scorers, the aggregator and the feedback generator.  *)
(*                                                                         *)
(* Representation.                                                         *)
(*   - A Python str is a sequence of characters.  An ASCII character is a  *)
(*     one-character string; a non-ASCII character is the string "uXXXX"   *)
(*     of its code point (lower-case hex).  S("abc") is <<"a","b","c">>.   *)
(*   - A Python float is an exact rational <<n, d>>, d > 0, in lowest      *)
(*     terms.  Division by zero yields ZeroDivisionError, which no         *)
(*     arithmetic operator accepts.  math.sqrt is rounded down to a        *)
(*     multiple of 1/SqrtScale.                                            *)
(*   - A Python dict is a record or a function on strings; a missing key   *)
(*     is a string outside DOMAIN.  None is the value None.                *)
(***************************************************************************)
EXTENDS Integers, Sequences, FiniteSets, TLC

None == "None"

(***************************************************************************)
(* Float arithmetic (exact rationals)                                      *)
(***************************************************************************)
Abs(n) == IF n < 0 THEN -n ELSE n

RECURSIVE GCD(_, _)
GCD(a, b) == IF b = 0 THEN a ELSE GCD(b, a % b)

ZeroDivisionError == <<"ZeroDivisionError">>

\* the float n / d, d > 0
Reduce(n, d, g) == <<n \div g, d \div g>>
R(n, d) == Reduce(n, d, GCD(Abs(n), d))

\* float(n) of an int
F(n) == <<n, 1>>

\* Sums and comparisons go through the least common denominator, and products
\* cancel across, to keep the intermediate integers small.
LCD(a, b) == (a[2] \div GCD(a[2], b[2])) * b[2]
AddOver(a, b, l) == R(a[1] * (l \div a[2]) + b[1] * (l \div b[2]), l)
RAdd(a, b) == AddOver(a, b, LCD(a, b))
RSub(a, b) == AddOver(a, <<-b[1], b[2]>>, LCD(a, b))
MulOver(a, b, g1, g2) ==
    R((a[1] \div g1) * (b[1] \div g2), (a[2] \div g2) * (b[2] \div g1))
RMul(a, b) == MulOver(a, b, GCD(Abs(a[1]), b[2]), GCD(Abs(b[1]), a[2]))
RDiv(a, b) ==
    IF b[1] = 0 THEN ZeroDivisionError
    ELSE IF b[1] > 0 THEN RMul(a, <<b[2], b[1]>>)
    ELSE RMul(a, <<-b[2], -b[1]>>)
LeOver(a, b, l) == a[1] * (l \div a[2]) <= b[1] * (l \div b[2])
RLe(a, b) == LeOver(a, b, LCD(a, b))
RLt(a, b) == ~RLe(b, a)
RGe(a, b) == RLe(b, a)
RGt(a, b) == RLt(b, a)
RMax(a, b) == IF RLt(a, b) THEN b ELSE a
RMin(a, b) == IF RLt(b, a) THEN b ELSE a

RECURSIVE RSumSeq(_)
RSumSeq(s) == IF s = <<>> THEN F(0) ELSE RAdd(s[1], RSumSeq(Tail(s)))

\* float(x) of a bool
FBool(b) == IF b THEN F(1) ELSE F(0)

SqrtScale == 100

\* math.sqrt(x), x >= 0, rounded down to a multiple of 1/SqrtScale
Sqrt(x) ==
    LET k == CHOOSE k \in 0..(SqrtScale * (x[1] \div x[2] + 1)) :
                 /\ k * k * x[2] <= x[1] * SqrtScale * SqrtScale
                 /\ (k + 1) * (k + 1) * x[2] > x[1] * SqrtScale * SqrtScale
    IN  R(k, SqrtScale)

(***************************************************************************)
(* Characters and str methods                                              *)
(***************************************************************************)
\* A list built by comprehension, as an explicit tuple
List(f) == f \o <<>>

S(str) == List([i \in 1..Len(str) |-> SubSeq(str, i, i)])

UpperChars == S("ABCDEFGHIJKLMNOPQRSTUVWXYZ")
LowerChars == S("abcdefghijklmnopqrstuvwxyz")
DigitChars == S("0123456789")

IsUpper(c) == \E i \in 1..26 : UpperChars[i] = c
IsLower(c) == \E i \in 1..26 : LowerChars[i] = c
IsDigit(c) == \E i \in 1..10 : DigitChars[i] = c
\* [一-鿿]: the non-ASCII characters "uXXXX" with 4e00 <= XXXX <= 9fff
IsCJK(c) ==
    /\ Len(c) = 5
    /\ \/ SubSeq(c, 2, 2) \in {"5", "6", "7", "8", "9"}
       \/ SubSeq(c, 2, 2) = "4" /\ SubSeq(c, 3, 3) \in {"e", "f"}
\* \w of a str pattern: letters, digits, underscore, ideographs
IsWord(c) == IsUpper(c) \/ IsLower(c) \/ IsDigit(c) \/ c = "_" \/ IsCJK(c)
\* \s, and the characters str.strip() and str.split() drop
IsSpace(c) == c \in {" ", "\t", "\n", "\r"}

DigitVal(c) == (CHOOSE i \in 1..10 : DigitChars[i] = c) - 1

LowerChar(c) ==
    IF IsUpper(c) THEN LowerChars[CHOOSE i \in 1..26 : UpperChars[i] = c] ELSE c

\* str.lower()
Lower(text) == List([i \in 1..Len(text) |-> LowerChar(text[i])])

\* sub in text
Contains(text, sub) ==
    \E i \in 1..(Len(text) - Len(sub) + 1) : SubSeq(text, i, i + Len(sub) - 1) = sub

\* text.startswith(sub), text.endswith(sub)
StartsWith(text, sub) == Len(sub) <= Len(text) /\ SubSeq(text, 1, Len(sub)) = sub
EndsWith(text, sub) ==
    Len(sub) <= Len(text) /\ SubSeq(text, Len(text) - Len(sub) + 1, Len(text)) = sub

\* the least and the greatest of a non-empty set of positions
Least(set) == CHOOSE i \in set : \A j \in set : i <= j
Greatest(set) == CHOOSE i \in set : \A j \in set : j <= i

\* text.count(sub): non-overlapping occurrences, scanning from the left
RECURSIVE CountFrom(_, _, _)
CountFrom(text, sub, i) ==
    LET Rest(at) == IF at = {} THEN 0
                    ELSE 1 + CountFrom(text, sub, Least(at) + Len(sub))
    IN  Rest({j \in i..(Len(text) - Len(sub) + 1) :
                 SubSeq(text, j, j + Len(sub) - 1) = sub})
Count(text, sub) == CountFrom(text, sub, 1)

\* text.strip()
Strip(text) ==
    LET Trim(keep) == IF keep = {} THEN <<>>
                      ELSE SubSeq(text, Least(keep), Greatest(keep))
    IN  Trim({i \in 1..Len(text) : ~IsSpace(text[i])})

\* the elements of a set of positions, ascending
SortedSeq(set) ==
    List([k \in 1..Cardinality(set) |->
             CHOOSE i \in set : Cardinality({j \in set : j < i}) = k - 1])

\* the maximal runs of characters satisfying P, left to right, as <<first, last>>
RunSpans(text, P(_)) ==
    LET EndOf(i) == CHOOSE j \in i..Len(text) :
                        /\ \A k \in i..j : P(text[k])
                        /\ (j = Len(text) \/ ~P(text[j + 1]))
        Spans(st) == List([k \in 1..Len(st) |-> <<st[k], EndOf(st[k])>>])
    IN  Spans(SortedSeq({i \in 1..Len(text) :
                            P(text[i]) /\ (i = 1 \/ ~P(text[i - 1]))}))

Cut(text, sp) == List([k \in 1..Len(sp) |-> SubSeq(text, sp[k][1], sp[k][2])])
Runs(text, P(_)) == Cut(text, RunSpans(text, P))

NotSpace(c) == ~IsSpace(c)

\* text.split(): the whitespace-separated words
Split(text) == Runs(text, NotSpace)

\* sep.join(parts)
RECURSIVE Join(_, _)
Join(sep, parts) ==
    IF parts = <<>> THEN <<>>
    ELSE IF Len(parts) = 1 THEN parts[1]
    ELSE parts[1] \o sep \o Join(sep, Tail(parts))

\* the elements of a list
Range(s) == {s[i] : i \in 1..Len(s)}

Min(a, b) == IF a < b THEN a ELSE b

\* the concatenation of a list of lists
RECURSIVE Flatten(_)
Flatten(ss) == IF ss = <<>> THEN <<>> ELSE ss[1] \o Flatten(Tail(ss))

AllChars(text, P(_)) == \A i \in 1..Len(text) : P(text[i])

(***************************************************************************)
(* Regular expressions of the source, as scanners                          *)
(***************************************************************************)
\* the maximal \w runs of text: every match that starts and ends with \b lies
\* on the borders of these runs
WordSpans(text) == RunSpans(text, IsWord)
WordRuns(text) == Runs(text, IsWord)

\* [一-鿿]{lo,hi}: each run of ideographs is consumed hi at a time, and a
\* remainder shorter than lo matches nothing
Chunks(run, lo, hi) ==
    LET n == Len(run)
        all == [k \in 1..((n + hi - 1) \div hi) |->
                   SubSeq(run, (k - 1) * hi + 1, Min(k * hi, n))]
    IN  SelectSeq(all, LAMBDA c : Len(c) >= lo)

CJKChunks(text, lo, hi) ==
    LET Each(runs) == Flatten([k \in 1..Len(runs) |-> Chunks(runs[k], lo, hi)])
    IN  Each(Runs(text, IsCJK))

\* [A-Z][a-z]+ as a whole \w run
IsTitleWord(w) ==
    Len(w) >= 2 /\ IsUpper(w[1]) /\ \A i \in 2..Len(w) : IsLower(w[i])

\* the text between the k-th and the (k+1)-th \w run
Gap(text, sp, k) == SubSeq(text, sp[k][2] + 1, sp[k + 1][1] - 1)

\* The maximal chains of consecutive \w runs satisfying Good whose gaps satisfy
\* GapOK, as <<first run, last run>>: what a greedy pattern
\* \bX(?:gX)*\b consumes, left to right.
Chains(text, sp, Good(_), GapOK(_)) ==
    LET n == Len(sp)
        W(k) == SubSeq(text, sp[k][1], sp[k][2])
        Linked(k) == /\ k >= 1 /\ k < n /\ Good(W(k)) /\ Good(W(k + 1))
                     /\ GapOK(Gap(text, sp, k))
        EndOf(k) == CHOOSE m \in k..n :
                        (\A j \in k..(m - 1) : Linked(j)) /\ ~Linked(m)
        Spans(st) == List([i \in 1..Len(st) |-> <<st[i], EndOf(st[i])>>])
    IN  Spans(SortedSeq({k \in 1..n : Good(W(k)) /\ ~Linked(k - 1)}))

IsAllSpace(g) == AllChars(g, IsSpace)
IsHyphen(g) == g = <<"-">>
IsLowerWord(w) == AllChars(w, IsLower)
IsUpperWord(w) == AllChars(w, IsUpper)

\* the text from the first to the last \w run of each chain
Spanned(text, sp, ch) ==
    List([i \in 1..Len(ch) |-> SubSeq(text, sp[ch[i][1]][1], sp[ch[i][2]][2])])

\* re.findall(r'\b[A-Z][a-z]+(?:\s+[A-Z][a-z]+)*\b', text)
FindTitlePhrases(text) ==
    LET Phrases(sp) == Spanned(text, sp, Chains(text, sp, IsTitleWord, IsAllSpace))
    IN  Phrases(WordSpans(text))

\* re.findall(r'\b[a-z]+-[a-z]+(?:-[a-z]+)*\b', text)
FindHyphenated(text) ==
    LET Compounds(sp) ==
            Spanned(text, sp,
                    SelectSeq(Chains(text, sp, IsLowerWord, IsHyphen),
                              LAMBDA c : c[2] > c[1]))
    IN  Compounds(WordSpans(text))

\* re.findall(r'\b[A-Z]{2,}\b', text)
FindAcronyms(text) ==
    SelectSeq(WordRuns(text), LAMBDA w : Len(w) >= 2 /\ IsUpperWord(w))

\* re.findall(r'\b[A-Z][a-z]+\s+[A-Z][a-z]+\b', text): within a chain of
\* title-case words the pairs (1st, 2nd), (3rd, 4th), ...
FindNames(text) ==
    LET Names(sp) ==
            LET PairsOf(c) == [j \in 1..((c[2] - c[1] + 1) \div 2) |->
                                  SubSeq(text, sp[c[1] + 2 * (j - 1)][1],
                                               sp[c[1] + 2 * (j - 1) + 1][2])]
                Pairs(ch) == Flatten([i \in 1..Len(ch) |-> PairsOf(ch[i])])
            IN  Pairs(Chains(text, sp, IsTitleWord, IsAllSpace))
    IN  Names(WordSpans(text))

\* the length of the run of digits that starts at position i (0 if none)
DigitRun(text, i) ==
    IF i > Len(text) \/ ~IsDigit(text[i]) THEN 0
    ELSE (CHOOSE j \in i..Len(text) :
              /\ \A k \in i..j : IsDigit(text[k])
              /\ (j = Len(text) \/ ~IsDigit(text[j + 1]))) - i + 1

\* \b at the position before text[i] (i = Len + 1: the end of the text)
Boundary(text, i) ==
    LET before == i > 1 /\ IsWord(text[i - 1])
        after == i <= Len(text) /\ IsWord(text[i])
    IN  before # after

\* the length of the match of \b\d{4}\b|\b\d+%\b|\b\d+\.\d+\b at position i
\* (0 if none); the alternatives are tried in this order
NumberMatchAt(text, i) ==
    LET Match(d, e) ==
            IF d = 0 \/ ~Boundary(text, i) THEN 0
            ELSE IF d >= 4 /\ Boundary(text, i + 4) THEN 4
            ELSE IF i + d <= Len(text) /\ text[i + d] = "%"
                    /\ Boundary(text, i + d + 1)
                 THEN d + 1
            ELSE IF i + d <= Len(text) /\ text[i + d] = "." /\ e > 0
                    /\ Boundary(text, i + d + 1 + e)
                 THEN d + 1 + e
            ELSE 0
        Fraction(d) == Match(d, DigitRun(text, i + d + 1))
    IN  Fraction(DigitRun(text, i))

\* re.findall(r'\b\d{4}\b|\b\d+%\b|\b\d+\.\d+\b', text)
RECURSIVE FindNumbersFrom(_, _)
FindNumbersFrom(text, i) ==
    LET Take(j, m) == <<SubSeq(text, j, j + m - 1)>> \o FindNumbersFrom(text, j + m)
        First(j) == Take(j, NumberMatchAt(text, j))
        Scan(at) == IF at = {} THEN <<>>
                   ELSE First(CHOOSE j \in at : \A k \in at : j <= k)
    IN  Scan({j \in i..Len(text) : NumberMatchAt(text, j) > 0})
FindNumbers(text) == FindNumbersFrom(text, 1)

(***************************************************************************)
(* Python containers                                                       *)
(***************************************************************************)
\* d.get(key, default)
Get(d, key, default) == IF key \in DOMAIN d THEN d[key] ELSE default

\* sum(1 for x in xs if Test(x))
CountIf(xs, Test(_)) == Len(SelectSeq(xs, Test))

\* ' '.join([s['text'] for s in self.script])
speech_text(self) ==
    Join(S(" "), [i \in 1..Len(self.script) |-> self.script[i]["text"]])

(***************************************************************************)
(* 1. Content consistency                                                  *)
(***************************************************************************)
stopwords ==
    { S("a"), S("an"), S("and"), S("are"), S("at"), S("be"), S("been"),
      S("but"), S("by"), S("for"), S("from"), S("had"), S("has"), S("have"),
      S("in"), S("is"), S("of"), S("on"), S("or"), S("that"), S("the"),
      S("these"), S("this"), S("those"), S("to"), S("was"), S("were"),
      S("will"), S("with"), S("would"), <<"u4ec0", "u4e48">>,
      <<"u4ed6", "u4eec">>, <<"u53ef", "u4ee5">>, <<"u600e", "u4e48">>,
      <<"u6211", "u4eec">>, <<"u8fd9", "u4e2a">>, <<"u90a3", "u4e2a">> }

\* The Counter of keywords.  Only its keys are ever read (truth value, keys(),
\* len()), so it is represented by its set of keys.
_extract_keywords(text0) ==
    LET Words(text) ==
            LET english_words == SelectSeq(WordRuns(text),
                                           LAMBDA w : Len(w) >= 4 /\ IsLowerWord(w))
                chinese_words == CJKChunks(text, 2, 4)
                all_words == english_words \o chinese_words
            IN  {w \in Range(all_words) : w \notin stopwords}
    IN  Words(Lower(text0))

_extract_key_concepts(text) ==
    LET english_concepts == FindTitlePhrases(text) \o FindHyphenated(text)
        chinese_concepts == CJKChunks(text, 3, 8)
        abbreviations == FindAcronyms(text)
        all_concepts == Range(english_concepts \o chinese_concepts \o abbreviations)
    IN  {c \in all_concepts : Len(c) >= 3}

\* _calculate_coverage giving an empty source the coverage 0.0
_calculate_coverage_empty_zero(source_items, target_items) ==
    IF source_items = {} THEN F(0)
    ELSE LET covered == Cardinality(source_items \cap target_items)
         IN  RDiv(F(covered), F(Cardinality(source_items)))
_calculate_coverage(source_items, target_items) ==
    IF source_items = {} THEN F(1)
    ELSE LET covered == Cardinality(source_items \cap target_items)
         IN  RDiv(F(covered), F(Cardinality(source_items)))

_check_slide_title_coverage(self) ==
    LET HalfMatched(title_words, text) ==
            RGe(F(CountIf(title_words,
                          LAMBDA word : Contains(text, word) /\ Len(word) > 3)),
                RDiv(F(Len(title_words)), F(2)))
        Coverage(plan_titles, text) ==
            LET IsCovered(title) == HalfMatched(WordRuns(Lower(title)), text)
                covered == CountIf(plan_titles, IsCovered)
            IN  IF plan_titles = <<>> THEN F(1)
                ELSE RDiv(F(covered), F(Len(plan_titles)))
        Titles(titled) == [i \in 1..Len(titled) |-> titled[i]["title"]]
    IN  Coverage(Titles(SelectSeq(self.plan, LAMBDA p : Get(p, "title", <<>>) # <<>>)),
                 Lower(speech_text(self)))

_check_fact_consistency(self) ==
    LET Matched(slides_numbers, slides_names, text) ==
            LET total_facts == Len(slides_numbers) + Len(slides_names)
                matched_facts ==
                    CountIf(slides_numbers, LAMBDA num : Contains(text, num))
                    + CountIf(slides_names, LAMBDA name : Contains(text, name))
            IN  IF total_facts = 0 THEN F(1)
                ELSE RDiv(F(matched_facts), F(total_facts))
    IN  Matched(FindNumbers(self.slides_content), FindNames(self.slides_content),
                speech_text(self))

\* risk_ratio / 0.3 * 0.3, the piece for risk_ratio <= 0.3
MapBelow(risk_ratio) == RMul(RDiv(risk_ratio, R(3, 10)), R(3, 10))

\* a second piece that starts at 0.4 instead of 0.3
MapAboveRaised(risk_ratio) ==
    RAdd(R(4, 10), RMul(RDiv(RSub(risk_ratio, R(3, 10)), R(7, 10)), R(6, 10)))

\* 0.3 + (risk_ratio - 0.3) / 0.7 * 0.7, the piece for risk_ratio > 0.3
MapAbove(risk_ratio) ==
    RAdd(R(3, 10), RMul(RDiv(RSub(risk_ratio, R(3, 10)), R(7, 10)), R(7, 10)))

_detect_hallucination_risk(source_keywords, target_keywords) ==
    LET new_keywords == target_keywords \ source_keywords
        Remap(risk_ratio) ==
            IF RLe(risk_ratio, R(3, 10)) THEN MapBelow(risk_ratio)
            ELSE MapAbove(risk_ratio)
    IN  IF target_keywords = {} THEN F(0)
        ELSE Remap(RDiv(F(Cardinality(new_keywords)),
                        F(Cardinality(target_keywords))))

\* the dictionary evaluate_content_consistency returns
ContentScores(keyword_coverage, concept_coverage, slide_coverage, risk, fact_accuracy) ==
    [keyword_coverage |-> keyword_coverage,
     concept_coverage |-> concept_coverage,
     slide_title_coverage |-> slide_coverage,
     fact_accuracy |-> fact_accuracy,
     hallucination_risk_score |-> risk,
     overall_score |->
         RDiv(RSumSeq(<<keyword_coverage, concept_coverage, slide_coverage,
                        fact_accuracy, RSub(F(1), risk)>>),
              F(5))]

evaluate_content_consistency(self) ==
    LET Compare(slides_keywords, slides_concepts, speech_keywords, speech_concepts) ==
            ContentScores(_calculate_coverage(slides_keywords, speech_keywords),
                          _calculate_coverage(slides_concepts, speech_concepts),
                          _check_slide_title_coverage(self),
                          _detect_hallucination_risk(slides_keywords, speech_keywords),
                          _check_fact_consistency(self))
        Extract(text) ==
            Compare(_extract_keywords(self.slides_content),
                    _extract_key_concepts(self.slides_content),
                    _extract_keywords(text), _extract_key_concepts(text))
    IN  Extract(speech_text(self))

(***************************************************************************)
(* 2. Structure                                                            *)
(***************************************************************************)
_evaluate_coherence(self) ==
    LET Sequential(numbers) ==
            \A i \in 1..(Len(numbers) - 1) : numbers[i] <= numbers[i + 1]
        Coverage(plan_slides, script_slide_set) ==
            IF plan_slides # {}
            THEN RDiv(F(Cardinality(plan_slides \cap script_slide_set)),
                      F(Cardinality(plan_slides)))
            ELSE F(1)
        Coherence(slide_numbers, script_slides) ==
            RDiv(RAdd(RAdd(FBool(Sequential(slide_numbers)),
                           FBool(Sequential(script_slides))),
                      Coverage(Range(slide_numbers), Range(script_slides))),
                 F(3))
    IN  Coherence([i \in 1..Len(self.plan) |-> self.plan[i]["slide"]],
                  [i \in 1..Len(self.script) |-> self.script[i]["slide"]])

\* int(digits) of a run of digits
RECURSIVE DigitsVal(_)
DigitsVal(ds) ==
    IF ds = <<>> THEN 0
    ELSE DigitsVal(SubSeq(ds, 1, Len(ds) - 1)) * 10 + DigitVal(ds[Len(ds)])

RECURSIVE Pow10(_)
Pow10(n) == IF n = 0 THEN 1 ELSE 10 * Pow10(n - 1)

\* re.search(r'(\d+\.?\d*)', text): <<first, digits, fraction digits>> of the
\* leftmost match, fraction digits = -1 when the match has no '.', or None
NumberSearch(text) ==
    LET Match(i, d) ==
            IF i + d <= Len(text) /\ text[i + d] = "."
            THEN <<i, d, DigitRun(text, i + d + 1)>>
            ELSE <<i, d, -1>>
        First(i) == Match(i, DigitRun(text, i))
        Scan(at) == IF at = {} THEN None
                    ELSE First(CHOOSE j \in at : \A k \in at : j <= k)
    IN  Scan({i \in 1..Len(text) : IsDigit(text[i])})

\* float(number_match.group(1))
MatchedFloat(text, m) ==
    LET whole == F(DigitsVal(SubSeq(text, m[1], m[1] + m[2] - 1)))
    IN  IF m[3] <= 0 THEN whole
        ELSE RAdd(whole,
                  R(DigitsVal(SubSeq(text, m[1] + m[2] + 1, m[1] + m[2] + m[3])),
                    Pow10(m[3])))

_parse_duration(duration_str0) ==
    LET Convert(duration_str, number) ==
            IF Contains(duration_str, S("second")) \/ EndsWith(duration_str, S("s"))
            THEN RDiv(number, F(60))
            ELSE IF Contains(duration_str, S("hour")) \/ EndsWith(duration_str, S("h"))
            THEN RMul(number, F(60))
            ELSE number
        Matched(duration_str, number_match) ==
            IF number_match = None THEN F(0)
            ELSE Convert(duration_str, MatchedFloat(duration_str, number_match))
        Parse(duration_str) == Matched(duration_str, NumberSearch(duration_str))
    IN  IF duration_str0 = <<>> THEN F(0)
        ELSE Parse(Strip(Lower(duration_str0)))

\* the loop shared by _evaluate_time_balance, _evaluate_time_distribution and
\* _evaluate_pace: the parsed durations of the plan that are > 0
TimedDurations(self) ==
    LET all == [i \in 1..Len(self.plan) |->
                   _parse_duration(Get(self.plan[i], "duration", S("0 minute")))]
    IN  SelectSeq(all, LAMBDA duration_minutes : RGt(duration_minutes, F(0)))

\* _evaluate_time_balance with balance_score = 1 - cv, not clamped at 0
_evaluate_time_balance_unclamped(self) ==
    LET Balance(durations) ==
            LET n == Len(durations)
                Spread(mean) ==
                    LET variance ==
                            RDiv(RSumSeq([i \in 1..n |->
                                             RMul(RSub(durations[i], mean),
                                                  RSub(durations[i], mean))]),
                                 F(n))
                        cv == RDiv(Sqrt(variance), mean)
                    IN  IF mean = F(0) THEN F(0)
                        ELSE RMin(RSub(F(1), cv), F(1))
            IN  IF durations = <<>> \/ n < 3 THEN F(1)
                ELSE Spread(RDiv(RSumSeq(durations), F(n)))
    IN  Balance(TimedDurations(self))
_evaluate_time_balance(self) ==
    LET Balance(durations) ==
            LET n == Len(durations)
                Spread(mean) ==
                    LET variance ==
                            RDiv(RSumSeq([i \in 1..n |->
                                             RMul(RSub(durations[i], mean),
                                                  RSub(durations[i], mean))]),
                                 F(n))
                        std_dev == Sqrt(variance)
                        cv == RDiv(std_dev, mean)
                        balance_score == RMax(F(0), RSub(F(1), cv))
                    IN  IF mean = F(0) THEN F(0)
                        ELSE RMin(balance_score, F(1))
            IN  IF durations = <<>> \/ n < 3 THEN F(1)
                ELSE Spread(RDiv(RSumSeq(durations), F(n)))
    IN  Balance(TimedDurations(self))

transition_phrases ==
    << S("let's"), S("next"), S("now"), S("moving"), S("turn to"),
      S("consider"), S("however"), S("therefore"), S("furthermore"),
      S("additionally"), S("in conclusion"), S("to summarize"),
      S("brings us to"), <<"u63a5", "u4e0b", "u6765">>, <<"u73b0", "u5728">>,
      <<"u7136", "u540e">>, <<"u56e0", "u6b64">>, <<"u6b64", "u5916">>,
      <<"u603b", "u4e4b">>, <<"u8ba9", "u6211", "u4eec">>,
      <<"u4e0b", "u9762">>, <<"u9996", "u5148">>, <<"u5176", "u6b21">>,
      <<"u6700", "u540e">> >>

\* text.split('.')[0] if '.' in text else text
FirstSentence(text) ==
    LET Before(dots) == IF dots = {} THEN text ELSE SubSeq(text, 1, Least(dots) - 1)
    IN  Before({i \in 1..Len(text) : text[i] = "."})

_evaluate_transitions(self) ==
    LET HasTransition(i) ==
            LET text == Lower(self.script[i]["text"])
                first_sentence == FirstSentence(text)
            IN  \E k \in 1..Len(transition_phrases) :
                    Contains(Lower(first_sentence), transition_phrases[k])
        transition_count == Cardinality({i \in 2..Len(self.script) : HasTransition(i)})
        ideal_transitions == Len(self.script) - 1
    IN  IF ideal_transitions > 0
        THEN RDiv(F(transition_count), F(ideal_transitions))
        ELSE F(1)

\* _evaluate_organization finding the introduction and the conclusion by
\* their titles only, not by the position of the item
_evaluate_organization_titled(self) ==
    LET n == Len(self.plan)
        Title(i) == Lower(Get(self.plan[i], "title", <<>>))
        has_intro == \E i \in 1..n :
                         \/ Contains(Title(i), S("introduction"))
                         \/ Contains(Title(i), S("intro"))
        has_conclusion == \E i \in 1..n :
                              \/ Contains(Title(i), S("conclusion"))
                              \/ Contains(Title(i), S("summary"))
                              \/ Contains(Title(i), S("q&a"))
        has_body == n >= 3
    IN  RDiv(RAdd(RAdd(FBool(has_intro), FBool(has_conclusion)), FBool(has_body)),
             F(3))
_evaluate_organization(self) ==
    LET n == Len(self.plan)
        Title(i) == Lower(Get(self.plan[i], "title", <<>>))
        has_intro == \E i \in 1..n :
                         \/ Contains(Title(i), S("introduction"))
                         \/ Contains(Title(i), S("intro"))
                         \/ i = 1
        has_conclusion == \E i \in 1..n :
                              \/ Contains(Title(i), S("conclusion"))
                              \/ Contains(Title(i), S("summary"))
                              \/ Contains(Title(i), S("q&a"))
                              \/ i = n
        has_body == n >= 3
    IN  RDiv(RAdd(RAdd(FBool(has_intro), FBool(has_conclusion)), FBool(has_body)),
             F(3))

\* the dictionary evaluate_structure returns
StructureScores(coherence_score, time_balance, transition_score, organization_score) ==
    [coherence_score |-> coherence_score,
     time_balance_score |-> time_balance,
     transition_score |-> transition_score,
     organization_score |-> organization_score,
     overall_score |->
         RDiv(RSumSeq(<<coherence_score, time_balance, transition_score,
                        organization_score>>), F(4))]

evaluate_structure(self) ==
    StructureScores(_evaluate_coherence(self),
                    _evaluate_time_balance(self),
                    _evaluate_transitions(self),
                    _evaluate_organization(self))

(***************************************************************************)
(* 3. Language quality                                                     *)
(***************************************************************************)
\* [.!?。!?]
NotTerminator(c) == c \notin {".", "!", "?", "u3002"}

_evaluate_clarity(self) ==
    LET Score(avg_length) ==
            IF RLe(F(12), avg_length) /\ RLe(avg_length, F(25)) THEN F(1)
            ELSE IF RLt(avg_length, F(12))
                 THEN RAdd(R(7, 10), RMul(RDiv(avg_length, F(12)), R(3, 10)))
            ELSE RMax(R(3, 10), RSub(F(1), RDiv(RSub(avg_length, F(25)), F(25))))
        Clarity(sentences) ==
            IF sentences = <<>> THEN F(0)
            ELSE Score(RDiv(RSumSeq([i \in 1..Len(sentences) |->
                                        F(Len(Split(sentences[i])))]),
                            F(Len(sentences))))
        Sentences(pieces) ==
            Clarity(SelectSeq([i \in 1..Len(pieces) |-> Strip(pieces[i])],
                              LAMBDA t : t # <<>>))
    IN  Sentences(Runs(speech_text(self), NotTerminator))

conversational_markers ==
    << S("let's"), S("we'll"), S("i'm"), S("you'll"), S("we're"), S("i'll"),
      S("today"), S("now"), S("here"), S("our"), S("my"), S("your"),
      S("everyone"), S("thank you"), S("hello"), S("hi"), <<"u5927", "u5bb6">>,
      <<"u6211", "u4eec">>, <<"u4eca", "u5929">>, <<"u73b0", "u5728">>,
      <<"u8ba9", "u6211", "u4eec">>, <<"u4f60", "u4eec">>,
      <<"u54b1", "u4eec">>, <<"u8fd9", "u91cc">>, <<"u90a3", "u4e48">> >>

_evaluate_conversational_style(self) ==
    LET Score(ratio) ==
            IF RLe(F(2), ratio) /\ RLe(ratio, F(6)) THEN F(1)
            ELSE IF RLt(ratio, F(2)) THEN RDiv(ratio, F(2))
            ELSE RMax(R(1, 2), RSub(F(1), RDiv(RSub(ratio, F(6)), F(10))))
        Style(words) ==
            LET marker_count ==
                    CountIf(words, LAMBDA word :
                        \E k \in 1..Len(conversational_markers) :
                            Contains(word, conversational_markers[k]))
            IN  Score(IF words # <<>>
                      THEN RMul(RDiv(F(marker_count), F(Len(words))), F(100))
                      ELSE F(0))
    IN  Style(Split(Lower(speech_text(self))))

_evaluate_vocabulary(self) ==
    LET Score(ttr) ==
            IF RLe(R(35, 100), ttr) /\ RLe(ttr, R(65, 100)) THEN F(1)
            ELSE IF RLt(ttr, R(35, 100)) THEN RDiv(ttr, R(35, 100))
            ELSE RMax(R(6, 10),
                      RSub(F(1), RDiv(RSub(ttr, R(65, 100)), R(35, 100))))
        Richness(all_words) ==
            LET unique_words == Cardinality(Range(all_words))
                total_words == Len(all_words)
            IN  IF all_words = <<>> THEN F(0)
                ELSE Score(RDiv(F(unique_words), F(total_words)))
        Words(all_text) ==
            LET words == SelectSeq(WordRuns(all_text), IsLowerWord)
                chinese_words == Runs(all_text, IsCJK)
            IN  Richness(words \o chinese_words)
    IN  Words(Lower(speech_text(self)))

technical_terms ==
    << S("llm"), S("large language model"), S("fact-checking"),
      S("hallucination"), S("argumentation"), S("evidence"), S("verification"),
      S("benchmark"), S("algorithm"), S("dataset"), S("evaluation"),
      S("accuracy") >>

_evaluate_professionalism(self) ==
    LET all_text == speech_text(self)
        term_usage == CountIf(technical_terms,
                              LAMBDA term : Contains(Lower(all_text), term))
    IN  RMin(RDiv(F(term_usage), RDiv(F(Len(technical_terms)), F(2))), F(1))

\* the dictionary evaluate_language_quality returns
LanguageScores(clarity_score, conversational_score, vocabulary_richness, professionalism) ==
    [clarity_score |-> clarity_score,
     conversational_score |-> conversational_score,
     vocabulary_richness |-> vocabulary_richness,
     professionalism_score |-> professionalism,
     overall_score |->
         RDiv(RSumSeq(<<clarity_score, conversational_score,
                        vocabulary_richness, professionalism>>), F(4))]

evaluate_language_quality(self) ==
    LanguageScores(_evaluate_clarity(self),
                   _evaluate_conversational_style(self),
                   _evaluate_vocabulary(self),
                   _evaluate_professionalism(self))

(***************************************************************************)
(* 4. Detail richness                                                      *)
(***************************************************************************)
\* _calculate_expansion_ratio giving slides without words the neutral 1.0
_calculate_expansion_ratio_neutral(self) ==
    LET Score(ratio) ==
            IF RLe(R(3, 2), ratio) /\ RLe(ratio, F(3)) THEN F(1)
            ELSE IF RLt(ratio, R(3, 2)) THEN RDiv(ratio, R(3, 2))
            ELSE RMax(R(1, 2), RSub(F(1), RDiv(RSub(ratio, F(3)), F(3))))
        Expansion(slides_words, speech_words) ==
            IF slides_words = 0 THEN F(1)
            ELSE Score(RDiv(F(speech_words), F(slides_words)))
    IN  Expansion(Len(Split(self.slides_content)), Len(Split(speech_text(self))))
_calculate_expansion_ratio(self) ==
    LET Score(ratio) ==
            IF RLe(R(3, 2), ratio) /\ RLe(ratio, F(3)) THEN F(1)
            ELSE IF RLt(ratio, R(3, 2)) THEN RDiv(ratio, R(3, 2))
            ELSE RMax(R(1, 2), RSub(F(1), RDiv(RSub(ratio, F(3)), F(3))))
        Expansion(slides_words, speech_words) ==
            IF slides_words = 0 THEN F(0)
            ELSE Score(RDiv(F(speech_words), F(slides_words)))
    IN  Expansion(Len(Split(self.slides_content)), Len(Split(speech_text(self))))

\* sum(all_text.count(phrase) for phrase in phrases)
RECURSIVE CountAll(_, _)
CountAll(all_text, phrases) ==
    IF phrases = <<>> THEN 0
    ELSE Count(all_text, phrases[1]) + CountAll(all_text, Tail(phrases))

example_indicators ==
    << S("example"), S("for instance"), S("such as"), S("like"), S("consider"),
      S("let's take"), S("case"), S("illustrate"), <<"u4f8b", "u5982">>,
      <<"u6bd4", "u5982">>, <<"u4e3e", "u4f8b">>, <<"u6848", "u4f8b">>,
      <<"u8003", "u8651">> >>

\* _check_example_usage returning the quotient without the cap at 1.0
_check_example_usage_uncapped(self) ==
    LET all_text == Lower(speech_text(self))
        example_count == CountAll(all_text, example_indicators)
        ideal_examples == RDiv(F(Len(self.script)), R(45, 10))
    IN  RDiv(F(example_count), RMax(ideal_examples, F(1)))
_check_example_usage(self) ==
    LET all_text == Lower(speech_text(self))
        example_count == CountAll(all_text, example_indicators)
        ideal_examples == RDiv(F(Len(self.script)), R(45, 10))
    IN  RMin(RDiv(F(example_count), RMax(ideal_examples, F(1))), F(1))

explanation_markers ==
    << S("this means"), S("in other words"), S("specifically"), S("that is"),
      S("namely"), S("essentially"), S("simply put"),
      <<"u4e5f", "u5c31", "u662f", "u8bf4">>,
      <<"u6362", "u53e5", "u8bdd", "u8bf4">>,
      <<"u5177", "u4f53", "u6765", "u8bf4">>,
      <<"u7b80", "u5355", "u6765", "u8bf4">> >>

_evaluate_explanations(self) ==
    LET all_text == Lower(speech_text(self))
        explanation_count == CountAll(all_text, explanation_markers)
        ideal_explanations == RDiv(F(Len(self.script)), F(3))
    IN  RMin(RDiv(F(explanation_count), RMax(ideal_explanations, F(1))), F(1))

context_keywords ==
    << S("background"), S("motivation"), S("why"), S("important"),
      S("challenge"), S("problem"), S("goal"), S("objective"),
      S("significance"), <<"u80cc", "u666f">>, <<"u52a8", "u673a">>,
      <<"u4e3a", "u4ec0", "u4e48">>, <<"u91cd", "u8981">>,
      <<"u6311", "u6218">>, <<"u95ee", "u9898">>, <<"u76ee", "u6807">>,
      <<"u610f", "u4e49">> >>

_evaluate_context(self) ==
    LET all_text == Lower(speech_text(self))
        context_count == CountIf(context_keywords,
                                 LAMBDA keyword : Contains(all_text, keyword))
    IN  RMin(RDiv(F(context_count), F(4)), F(1))

\* the dictionary evaluate_detail_richness returns
DetailScores(expansion_ratio, example_usage, explanation_quality, context_provision) ==
    [expansion_ratio_score |-> expansion_ratio,
     example_usage_score |-> example_usage,
     explanation_quality |-> explanation_quality,
     context_provision |-> context_provision,
     overall_score |->
         RDiv(RSumSeq(<<expansion_ratio, example_usage, explanation_quality,
                        context_provision>>), F(4))]

evaluate_detail_richness(self) ==
    DetailScores(_calculate_expansion_ratio(self),
                 _check_example_usage(self),
                 _evaluate_explanations(self),
                 _evaluate_context(self))

(***************************************************************************)
(* 5. Time management                                                      *)
(***************************************************************************)
_calculate_total_time(self) ==
    RSumSeq([i \in 1..Len(self.plan) |->
                _parse_duration(Get(self.plan[i], "duration", S("0 minute")))])

_evaluate_duration_appropriateness(self, total_minutes) ==
    LET num_slides == Len(self.plan)
        Appropriateness(ideal_min, ideal_max) ==
            IF RLe(ideal_min, total_minutes) /\ RLe(total_minutes, ideal_max) THEN F(1)
            ELSE IF RLt(total_minutes, ideal_min) THEN RDiv(total_minutes, ideal_min)
            ELSE RMax(R(4, 10),
                      RSub(F(1), RDiv(RSub(total_minutes, ideal_max), ideal_max)))
    IN  Appropriateness(F(num_slides * 1), RMul(F(num_slides), R(25, 10)))

_evaluate_time_distribution(self) ==
    LET Distribution(durations) ==
            LET n == Len(durations)
                intro_ok == RLe(durations[1], F(2))
                outro_ok == RLe(durations[n], F(2))
                MiddleOk(middle_durations) ==
                    \A i \in 1..Len(middle_durations) : RGe(middle_durations[i], F(1))
                middle_ok == MiddleOk(IF n > 2 THEN SubSeq(durations, 2, n - 1)
                                      ELSE durations)
            IN  IF n < 3 THEN F(1)
                ELSE RDiv(RAdd(RAdd(FBool(intro_ok), FBool(outro_ok)),
                               FBool(middle_ok)), F(3))
    IN  Distribution(TimedDurations(self))

\* _evaluate_pace counting only the durations above twice the mean
_evaluate_pace_long_only(self) ==
    LET Pace(durations) ==
            LET n == Len(durations)
                ExtremeCount(mean) ==
                    CountIf(durations, LAMBDA d : RGt(d, RMul(mean, F(2))))
                extreme_count == ExtremeCount(RDiv(RSumSeq(durations), F(n)))
            IN  IF durations = <<>> THEN F(1)
                ELSE RMax(F(0), RSub(F(1), RDiv(F(extreme_count), F(n))))
    IN  Pace(TimedDurations(self))
_evaluate_pace(self) ==
    LET Pace(durations) ==
            LET n == Len(durations)
                ExtremeCount(mean) ==
                    CountIf(durations, LAMBDA d : \/ RGt(d, RMul(mean, F(2)))
                                                  \/ RLt(d, RMul(mean, R(1, 2))))
                extreme_count == ExtremeCount(RDiv(RSumSeq(durations), F(n)))
            IN  IF durations = <<>> THEN F(1)
                ELSE RMax(F(0), RSub(F(1), RDiv(F(extreme_count), F(n))))
    IN  Pace(TimedDurations(self))

\* the dictionary evaluate_time_management returns
TimeScores(total_time, duration_appropriateness, time_distribution, pace_consistency) ==
    [total_minutes |-> total_time,
     duration_appropriateness |-> duration_appropriateness,
     time_distribution_score |-> time_distribution,
     pace_consistency |-> pace_consistency,
     overall_score |->
         RDiv(RSumSeq(<<duration_appropriateness, time_distribution,
                        pace_consistency>>), F(3))]

evaluate_time_management(self) ==
    LET Timed(total_time) ==
            TimeScores(total_time, _evaluate_duration_appropriateness(self, total_time),
                       _evaluate_time_distribution(self), _evaluate_pace(self))
    IN  Timed(_calculate_total_time(self))

(***************************************************************************)
(* Aggregation                                                             *)
(***************************************************************************)
(***************************************************************************)
(* Double arithmetic                                                       *)
(*                                                                         *)
(* Where the rounding of a Python float matters, the float is the IEEE 754 *)
(* double itself: [m |-> mantissa, e |-> exponent] stands for m * 2^e,     *)
(* with m = 0 or 2^52 <= m < 2^53.  The mantissa is a natural number       *)
(* written in limbs of 15 bits, least significant first, without leading   *)
(* zero limbs.  Sums and products are computed exactly and rounded to      *)
(* nearest, ties to even; the scores are far from overflow and underflow.  *)
(***************************************************************************)
LimbBits == 14 + 1
Base == 2 ^ LimbBits
MantissaBits == 53

\* the natural number n < Base * Base in limbs
Nat2(n) ==
    IF n = 0 THEN <<>>
    ELSE IF n < Base THEN <<n>>
    ELSE <<n % Base, n \div Base>>

RECURSIVE BTrim(_)
BTrim(a) ==
    IF a # <<>> /\ a[Len(a)] = 0 THEN BTrim(SubSeq(a, 1, Len(a) - 1)) ELSE a

BLimb(a, i) == IF i <= Len(a) THEN a[i] ELSE 0

\* a + b
RECURSIVE BAddFrom(_, _, _, _)
BAddFrom(a, b, i, carry) ==
    IF i > Len(a) /\ i > Len(b)
    THEN (IF carry = 0 THEN <<>> ELSE <<carry>>)
    ELSE LET Put(t) == <<t % Base>> \o BAddFrom(a, b, i + 1, t \div Base)
         IN  Put(BLimb(a, i) + BLimb(b, i) + carry)
BAdd(a, b) == BAddFrom(a, b, 1, 0)

\* a * k, 0 <= k < Base
RECURSIVE BScaleFrom(_, _, _, _)
BScaleFrom(a, k, i, carry) ==
    IF i > Len(a)
    THEN (IF carry = 0 THEN <<>> ELSE <<carry>>)
    ELSE LET Put(t) == <<t % Base>> \o BScaleFrom(a, k, i + 1, t \div Base)
         IN  Put(a[i] * k + carry)
BScale(a, k) == BTrim(BScaleFrom(a, k, 1, 0))

\* a * Base^n
BShiftLimbs(a, n) == IF a = <<>> THEN <<>> ELSE [i \in 1..n |-> 0] \o a

\* a * b
RECURSIVE BMulFrom(_, _, _)
BMulFrom(a, b, j) ==
    IF j > Len(b) THEN <<>>
    ELSE BAdd(BShiftLimbs(BScale(a, b[j]), j - 1), BMulFrom(a, b, j + 1))
BMul(a, b) == BMulFrom(a, b, 1)

\* a * 2^n
BShl(a, n) ==
    IF n = 0 THEN a
    ELSE BShiftLimbs(BScale(a, 2 ^ (n % LimbBits)), n \div LimbBits)

\* <<a \div k, a % k>>, 0 < k <= Base, from the most significant limb down
RECURSIVE BDivFrom(_, _, _, _)
BDivFrom(a, k, i, rem) ==
    IF i = 0 THEN <<<<>>, rem>>
    ELSE LET Below(t, rest) == <<rest[1] \o <<t \div k>>, rest[2]>>
             Take(t) == Below(t, BDivFrom(a, k, i - 1, t % k))
         IN  Take(rem * Base + a[i])
BDiv(a, k) ==
    LET Trimmed(qr) == <<BTrim(qr[1]), qr[2]>>
    IN  Trimmed(BDivFrom(a, k, Len(a), 0))

\* <<a \div 2^n, a % 2^n # 0>>
BShr(a, n) ==
    LET dropped == SubSeq(a, 1, Min(n \div LimbBits, Len(a)))
        Kept(qr) ==
            <<qr[1], qr[2] # 0 \/ \E i \in 1..Len(dropped) : dropped[i] # 0>>
    IN  Kept(BDiv(SubSeq(a, n \div LimbBits + 1, Len(a)), 2 ^ (n % LimbBits)))

\* the number of bits of a
BitLen(a) ==
    IF a = <<>> THEN 0
    ELSE (Len(a) - 1) * LimbBits
         + (CHOOSE k \in 1..LimbBits :
                2 ^ (k - 1) <= a[Len(a)] /\ a[Len(a)] < 2 ^ k)

BOdd(a) == a # <<>> /\ a[1] % 2 = 1

Zero == [m |-> <<>>, e |-> 0]

\* the double nearest to n * 2^e (ties to even); inexact says that n was
\* itself cut from a number with more bits
RoundDouble(n, e, inexact) ==
    LET Exact(len) == [m |-> BShl(n, MantissaBits - len), e |-> e - (MantissaBits - len)]
        Carried(q, exp) ==
            IF BitLen(q) > MantissaBits THEN [m |-> BShr(q, 1)[1], e |-> exp + 1]
            ELSE [m |-> q, e |-> exp]
        \* q is n without its low bits, guard the highest of the low bits
        Up(q, guard, sticky, exp) ==
            IF guard /\ (sticky \/ BOdd(q))
            THEN Carried(BAdd(q, <<1>>), exp)
            ELSE [m |-> q, e |-> exp]
        Guarded(q1, exp) ==
            Up(BShr(q1[1], 1)[1], BOdd(q1[1]), inexact \/ q1[2], exp)
        Chop(len) == Guarded(BShr(n, len - MantissaBits - 1),
                             e + (len - MantissaBits))
        Sized(len) == IF len <= MantissaBits THEN Exact(len) ELSE Chop(len)
    IN  IF n = <<>> THEN Zero ELSE Sized(BitLen(n))

\* x * y
FMul(x, y) == RoundDouble(BMul(x.m, y.m), x.e + y.e, FALSE)

\* x + y
FAdd(x, y) ==
    LET Aligned(exp) ==
            RoundDouble(BAdd(BShl(x.m, x.e - exp), BShl(y.m, y.e - exp)), exp, FALSE)
    IN  IF x.m = <<>> THEN y
        ELSE IF y.m = <<>> THEN x
        ELSE Aligned(Min(x.e, y.e))

\* a < b for naturals in limbs
RECURSIVE BLessFrom(_, _, _)
BLessFrom(a, b, i) ==
    IF i = 0 THEN FALSE
    ELSE IF a[i] # b[i] THEN a[i] < b[i]
    ELSE BLessFrom(a, b, i - 1)
BLess(a, b) ==
    IF Len(a) # Len(b) THEN Len(a) < Len(b) ELSE BLessFrom(a, b, Len(a))

\* x < y and x <= y for doubles >= 0
FLt(x, y) ==
    IF y.m = <<>> THEN FALSE
    ELSE IF x.m = <<>> THEN TRUE
    ELSE IF x.e # y.e THEN x.e < y.e
    ELSE BLess(x.m, y.m)
FLe(x, y) == ~FLt(y, x)

\* a - b for a >= b
RECURSIVE BSubFrom(_, _, _, _)
BSubFrom(a, b, i, borrow) ==
    IF i > Len(a) THEN <<>>
    ELSE LET Put(t) == <<t % Base>> \o BSubFrom(a, b, i + 1, IF t < Base THEN 1 ELSE 0)
         IN  Put(Base + a[i] - BLimb(b, i) - borrow)
BSub(a, b) == BTrim(BSubFrom(a, b, 1, 0))

\* x - y for x >= y >= 0
FSub(x, y) ==
    LET Aligned(exp) ==
            RoundDouble(BSub(BShl(x.m, x.e - exp), BShl(y.m, y.e - exp)), exp, FALSE)
    IN  IF y.m = <<>> THEN x ELSE Aligned(Min(x.e, y.e))

\* <<(r * 2^i) \div b, (r * 2^i) % b>> for r < b and i > 0: the high half
\* of the bits first, then the low half from the remainder
RECURSIVE BDivBits(_, _, _)
BDivBits(r, b, i) ==
    LET Bit(twice) == IF BLess(twice, b) THEN <<<<>>, twice>>
                      ELSE <<<<1>>, BSub(twice, b)>>
        Joined(high, low) == <<BAdd(BShl(high[1], i - i \div 2), low[1]), low[2]>>
        Halves(high) == Joined(high, BDivBits(high[2], b, i - i \div 2))
    IN  IF i = 1 THEN Bit(BScale(r, 2)) ELSE Halves(BDivBits(r, b, i \div 2))

\* x / y for y > 0: the mantissas are less than a factor 2 apart
QuotientBits == 4 * LimbBits
FDiv(x, y) ==
    LET Whole(first, rest) ==
            RoundDouble(BAdd(BShl(Nat2(first), QuotientBits), rest[1]),
                        x.e - y.e - QuotientBits, rest[2] # <<>>)
        Quotient(first) ==
            Whole(first, BDivBits(BSub(x.m, BScale(y.m, first)), y.m, QuotientBits))
    IN  IF x.m = <<>> THEN Zero
        ELSE Quotient(IF BLess(x.m, y.m) THEN 0 ELSE 1)

\* the double of the decimal literal, or of the quotient of two small ints,
\* n / d with 0 <= n < Base and 0 < d < Base
Double(n, d) ==
    LET Quotient(qr) == RoundDouble(qr[1], -(5 * LimbBits), qr[2] # 0)
    IN  Quotient(BDiv(BShl(Nat2(n), 5 * LimbBits), d))

\* the double of a float x = <<n, d>> of the exact arithmetic
DoubleOf(x) == Double(x[1], x[2])

\* 1 - k * 2^-53, the k-th double below 1.0, 0 < k < Base
BelowOne(k) ==
    [m |-> <<Base - k>>
           \o [i \in 1..(MantissaBits \div LimbBits - 1) |-> Base - 1]
           \o <<2 ^ (MantissaBits % LimbBits) - 1>>,
     e |-> -MantissaBits]
DimensionNames ==
    <<"content_consistency", "structure", "language_quality", "detail_richness",
      "time_management">>

\* the five dimensions weighted evenly
weights_even ==
    [content_consistency |-> R(20, 100),
     structure |-> R(20, 100),
     language_quality |-> R(20, 100),
     detail_richness |-> R(20, 100),
     time_management |-> R(20, 100)]
weights ==
    [content_consistency |-> R(30, 100),
     structure |-> R(25, 100),
     language_quality |-> R(20, 100),
     detail_richness |-> R(15, 100),
     time_management |-> R(10, 100)]

\* the grade strings: 'A+ (..)', 'A (..)', 'B+ (..)', 'B (..)', 'C+ (..)',
\* 'C (..)', 'D (..)', 'F (..)'
GradeAPlus == S("A+ (") \o <<"u4f18", "u79c0">> \o S(")")
GradeA == S("A (") \o <<"u4f18", "u79c0">> \o S(")")
GradeBPlus == S("B+ (") \o <<"u826f", "u597d">> \o S(")")
GradeB == S("B (") \o <<"u826f", "u597d">> \o S(")")
GradeCPlus == S("C+ (") \o <<"u4e2d", "u7b49">> \o S(")")
GradeC == S("C (") \o <<"u4e2d", "u7b49">> \o S(")")
GradeD == S("D (") \o <<"u53ca", "u683c">> \o S(")")
GradeF == S("F (") \o <<"u4e0d", "u53ca", "u683c">> \o S(")")

\* _get_grade with the strings of the 0.60 and 0.65 branches exchanged
_get_grade_exchanged(score) ==
    IF RGe(score, R(90, 100)) THEN GradeAPlus
    ELSE IF RGe(score, R(85, 100)) THEN GradeA
    ELSE IF RGe(score, R(80, 100)) THEN GradeBPlus
    ELSE IF RGe(score, R(75, 100)) THEN GradeB
    ELSE IF RGe(score, R(70, 100)) THEN GradeCPlus
    ELSE IF RGe(score, R(65, 100)) THEN GradeD
    ELSE IF RGe(score, R(60, 100)) THEN GradeC
    ELSE GradeF
\* _get_grade with every threshold excluded from its own grade
_get_grade_strict(score) ==
    IF RGt(score, R(90, 100)) THEN GradeAPlus
    ELSE IF RGt(score, R(85, 100)) THEN GradeA
    ELSE IF RGt(score, R(80, 100)) THEN GradeBPlus
    ELSE IF RGt(score, R(75, 100)) THEN GradeB
    ELSE IF RGt(score, R(70, 100)) THEN GradeCPlus
    ELSE IF RGt(score, R(65, 100)) THEN GradeC
    ELSE IF RGt(score, R(60, 100)) THEN GradeD
    ELSE GradeF
_get_grade(score) ==
    IF RGe(score, R(90, 100)) THEN GradeAPlus
    ELSE IF RGe(score, R(85, 100)) THEN GradeA
    ELSE IF RGe(score, R(80, 100)) THEN GradeBPlus
    ELSE IF RGe(score, R(75, 100)) THEN GradeB
    ELSE IF RGe(score, R(70, 100)) THEN GradeCPlus
    ELSE IF RGe(score, R(65, 100)) THEN GradeC
    ELSE IF RGe(score, R(60, 100)) THEN GradeD
    ELSE GradeF

\* sum(results[key]['overall_score'] * weights[key] for key in weights)
WeightedSum(results, w) ==
    RSumSeq([i \in 1..Len(DimensionNames) |->
                RMul(results[DimensionNames[i]]["overall_score"],
                     w[DimensionNames[i]])])

\* sum(...) of doubles: 0 + s[1] + s[2] + ..., from the left
RECURSIVE FSumFrom(_, _, _)
FSumFrom(s, i, acc) ==
    IF i > Len(s) THEN acc ELSE FSumFrom(s, i + 1, FAdd(acc, s[i]))
FSumSeq(s) == FSumFrom(s, 1, Zero)

\* the sum of the overall scores, the weights left out
SumDouble(results, w) ==
    FSumSeq([i \in 1..Len(DimensionNames) |->
                results[DimensionNames[i]]["overall_score"]])
\* the doubles of the literals of weights
weights_double == [d \in DOMAIN weights |-> DoubleOf(weights[d])] @@ <<>>

\* the same sum over the keys of weights, in double arithmetic
WeightedSumDouble(results, w) ==
    FSumSeq([i \in 1..Len(DimensionNames) |->
                FMul(results[DimensionNames[i]]["overall_score"],
                     w[DimensionNames[i]])])
\* the dict evaluate_all returns
\* the dictionary evaluate_all returns for the dictionaries of the five scorers
Aggregated(results) ==
    LET Graded(overall_score) ==
            [content_consistency |-> results.content_consistency,
             structure |-> results.structure,
             language_quality |-> results.language_quality,
             detail_richness |-> results.detail_richness,
             time_management |-> results.time_management,
             overall_score |-> overall_score,
             grade |-> _get_grade(overall_score),
             weights |-> weights]
    IN  Graded(WeightedSum(results, weights))

evaluate_all(self) ==
    Aggregated([content_consistency |-> evaluate_content_consistency(self),
                structure |-> evaluate_structure(self),
                language_quality |-> evaluate_language_quality(self),
                detail_richness |-> evaluate_detail_richness(self),
                time_management |-> evaluate_time_management(self)])

(***************************************************************************)
(* Report                                                                  *)
(***************************************************************************)
\* int(x) of a float x >= 0
IntOf(x) == x[1] \div x[2]

\* f"{x:.1f}" of a float x >= 0: the nearest multiple of 1/10, ties to even
Format1f(x) ==
    LET Round(lo, rest) ==
            IF RLt(rest, R(1, 2)) THEN R(lo, 10)
            ELSE IF RGt(rest, R(1, 2)) THEN R(lo + 1, 10)
            ELSE IF lo % 2 = 0 THEN R(lo, 10)
            ELSE R(lo + 1, 10)
        Tenths(t) == Round(IntOf(t), RSub(t, F(IntOf(t))))
    IN  Tenths(RMul(x, F(10)))

\* A message of the feedback is a fixed template; it is represented by
\* <<priority label, rule>> (and the values formatted into it).

\* The list the numbered lines of _generate_suggestions are built from.
SuggestionList(results) ==
    LET cc == results["content_consistency"]
        st == results["structure"]
        lq == results["language_quality"]
        dr == results["detail_richness"]
        tm == results["time_management"]
        If(cond, msg) == IF cond THEN <<msg>> ELSE <<>>
        total_mins == tm["total_minutes"]
        total_secs == IntOf(RMul(total_mins, F(60)))
        Closed(suggestions) ==
            IF RLt(results["overall_score"], R(7, 10))
            THEN Append(suggestions, <<"closing", "content_and_structure">>)
            ELSE IF RLt(results["overall_score"], R(85, 100))
            THEN Append(suggestions, <<"closing", "language_and_detail">>)
            ELSE suggestions
        Listed(priority_issues) ==
            Closed(IF priority_issues # <<>> THEN priority_issues
                   ELSE << <<"all_targets_met">> >>)
    IN  Listed(
            If(RLt(cc["keyword_coverage"], R(6, 10)), <<"high", "keyword_coverage">>)
            \o If(RLt(cc["slide_title_coverage"], R(7, 10)),
                  <<"high", "slide_title_coverage">>)
            \o If(RGt(cc["hallucination_risk_score"], R(4, 10)),
                  <<"high", "hallucination_risk_score">>)
            \o If(RLt(cc["fact_accuracy"], R(7, 10)), <<"high", "fact_accuracy">>)
            \o If(RLt(st["coherence_score"], R(7, 10)), <<"medium", "coherence_score">>)
            \o If(RLt(st["transition_score"], R(5, 10)),
                  <<"medium", "transition_score">>)
            \o If(RLt(st["time_balance_score"], R(6, 10)),
                  <<"medium", "time_balance_score">>)
            \o If(RLt(lq["conversational_score"], R(5, 10)),
                  <<"medium_low", "conversational_score">>)
            \o If(RLt(lq["clarity_score"], R(6, 10)), <<"medium_low", "clarity_score">>)
            \o If(RLt(lq["professionalism_score"], R(6, 10)),
                  <<"medium_low", "professionalism_score">>)
            \o If(RLt(dr["example_usage_score"], R(4, 10)),
                  <<"low", "example_usage_score">>)
            \o If(RLt(dr["explanation_quality"], R(4, 10)),
                  <<"low", "explanation_quality">>)
            \o If(RLt(dr["expansion_ratio_score"], R(5, 10)),
                  <<"low", "expansion_ratio_score">>)
            \o If(RLt(tm["duration_appropriateness"], R(6, 10)),
                  <<"medium_low", "duration_appropriateness",
                    Format1f(total_mins), total_secs>>))

\* _generate_suggestions with the list turned around
_generate_suggestions_reversed(results) ==
    LET Numbered(suggestions) ==
            List([i \in 1..Len(suggestions) |->
                     <<i, suggestions[Len(suggestions) + 1 - i]>>])
    IN  Numbered(SuggestionList(results))

\* _generate_suggestions with a closing remark of its own for an overall
\* score of 0.85 and more
_generate_suggestions_closed(results) ==
    LET Numbered(suggestions) ==
            List([i \in 1..Len(suggestions) |-> <<i, suggestions[i]>>])
        Closed(suggestions) ==
            IF RGe(results["overall_score"], R(85, 100))
            THEN Append(suggestions, <<"closing", "keep_going">>)
            ELSE suggestions
    IN  Numbered(Closed(SuggestionList(results)))
\* '\n'.join(f"  {i+1}. {s}" for i, s in enumerate(suggestions)): the lines, each
\* <<number, message>>
_generate_suggestions(results) ==
    LET Numbered(suggestions) ==
            List([i \in 1..Len(suggestions) |-> <<i, suggestions[i]>>])
    IN  Numbered(SuggestionList(results))

\* _generate_strengths praising the clarity from 0.5 on
_generate_strengths_early(results) ==
    LET cc == results["content_consistency"]
        st == results["structure"]
        lq == results["language_quality"]
        dr == results["detail_richness"]
        tm == results["time_management"]
        If(cond, msg) == IF cond THEN <<msg>> ELSE <<>>
        Listed(strengths) ==
            IF strengths = <<>> THEN <<"keep_improving">> ELSE strengths
    IN  Listed(
            If(RGe(cc["keyword_coverage"], R(75, 100)), "keyword_coverage")
            \o If(RGe(cc["fact_accuracy"], R(8, 10)), "fact_accuracy")
            \o If(RLe(cc["hallucination_risk_score"], R(25, 100)),
                  "hallucination_risk_score")
            \o If(RGe(st["coherence_score"], R(8, 10)), "coherence_score")
            \o If(RGe(st["transition_score"], R(65, 100)), "transition_score")
            \o If(RGe(st["organization_score"], R(8, 10)), "organization_score")
            \o If(RGe(lq["conversational_score"], R(6, 10)), "conversational_score")
            \o If(RGe(lq["clarity_score"], R(5, 10)), "clarity_score")
            \o If(RGe(lq["professionalism_score"], R(7, 10)), "professionalism_score")
            \o If(RGe(dr["example_usage_score"], R(5, 10)), "example_usage_score")
            \o If(RGe(dr["explanation_quality"], R(5, 10)), "explanation_quality")
            \o If(RGe(dr["context_provision"], R(65, 100)), "context_provision")
            \o If(RGe(tm["duration_appropriateness"], R(75, 100)),
                  "duration_appropriateness")
            \o If(RGe(tm["time_distribution_score"], R(7, 10)),
                  "time_distribution_score"))
\* '\n'.join(f"  - {s}" for s in strengths): the lines
_generate_strengths(results) ==
    LET cc == results["content_consistency"]
        st == results["structure"]
        lq == results["language_quality"]
        dr == results["detail_richness"]
        tm == results["time_management"]
        If(cond, msg) == IF cond THEN <<msg>> ELSE <<>>
        Listed(strengths) ==
            IF strengths = <<>> THEN <<"keep_improving">> ELSE strengths
    IN  Listed(
            If(RGe(cc["keyword_coverage"], R(75, 100)), "keyword_coverage")
            \o If(RGe(cc["fact_accuracy"], R(8, 10)), "fact_accuracy")
            \o If(RLe(cc["hallucination_risk_score"], R(25, 100)),
                  "hallucination_risk_score")
            \o If(RGe(st["coherence_score"], R(8, 10)), "coherence_score")
            \o If(RGe(st["transition_score"], R(65, 100)), "transition_score")
            \o If(RGe(st["organization_score"], R(8, 10)), "organization_score")
            \o If(RGe(lq["conversational_score"], R(6, 10)), "conversational_score")
            \o If(RGe(lq["clarity_score"], R(75, 100)), "clarity_score")
            \o If(RGe(lq["professionalism_score"], R(7, 10)), "professionalism_score")
            \o If(RGe(dr["example_usage_score"], R(5, 10)), "example_usage_score")
            \o If(RGe(dr["explanation_quality"], R(5, 10)), "explanation_quality")
            \o If(RGe(dr["context_provision"], R(65, 100)), "context_provision")
            \o If(RGe(tm["duration_appropriateness"], R(75, 100)),
                  "duration_appropriateness")
            \o If(RGe(tm["time_distribution_score"], R(7, 10)),
                  "time_distribution_score"))

\* The text of the report, as the data it renders: the headline, the bar of each
\* dimension, the pass mark of each sub-metric, the suggestions and the
\* strengths.
Render(self, results, total_time) ==
    LET Ok(dim, metric, threshold) == RGe(results[dim][metric], threshold)
        tm == results["time_management"]
    IN  [overall_score |-> results["overall_score"],
         grade |-> results["grade"],
         total_time |-> <<Format1f(total_time), IntOf(RMul(total_time, F(60)))>>,
         num_slides |-> Len(self.plan),
         bars |-> [i \in 1..Len(DimensionNames) |->
                      <<DimensionNames[i], results["weights"][DimensionNames[i]],
                        IntOf(RMul(results[DimensionNames[i]]["overall_score"],
                                   F(40)))>>],
         marks |->
             [keyword_coverage |-> Ok("content_consistency", "keyword_coverage", R(7, 10)),
              concept_coverage |-> Ok("content_consistency", "concept_coverage", R(7, 10)),
              slide_title_coverage |->
                  Ok("content_consistency", "slide_title_coverage", R(8, 10)),
              fact_accuracy |-> Ok("content_consistency", "fact_accuracy", R(8, 10)),
              hallucination_risk_score |->
                  RLe(results["content_consistency"]["hallucination_risk_score"],
                      R(3, 10)),
              coherence_score |-> Ok("structure", "coherence_score", R(8, 10)),
              time_balance_score |-> Ok("structure", "time_balance_score", R(7, 10)),
              transition_score |-> Ok("structure", "transition_score", R(6, 10)),
              organization_score |-> Ok("structure", "organization_score", R(8, 10)),
              clarity_score |-> Ok("language_quality", "clarity_score", R(7, 10)),
              conversational_score |->
                  Ok("language_quality", "conversational_score", R(6, 10)),
              vocabulary_richness |->
                  Ok("language_quality", "vocabulary_richness", R(5, 10)),
              professionalism_score |->
                  Ok("language_quality", "professionalism_score", R(7, 10)),
              expansion_ratio_score |->
                  Ok("detail_richness", "expansion_ratio_score", R(7, 10)),
              example_usage_score |->
                  Ok("detail_richness", "example_usage_score", R(5, 10)),
              explanation_quality |->
                  Ok("detail_richness", "explanation_quality", R(5, 10)),
              context_provision |-> Ok("detail_richness", "context_provision", R(6, 10)),
              total_minutes |-> RLe(F(10), tm["total_minutes"])
                                /\ RLe(tm["total_minutes"], F(30)),
              duration_appropriateness |->
                  Ok("time_management", "duration_appropriateness", R(7, 10)),
              time_distribution_score |->
                  Ok("time_management", "time_distribution_score", R(6, 10)),
              pace_consistency |-> Ok("time_management", "pace_consistency", R(7, 10))],
         results |-> results,
         suggestions |-> _generate_suggestions(results),
         strengths |-> _generate_strengths(results)]

generate_report(self) == Render(self, evaluate_all(self), _calculate_total_time(self))

(***************************************************************************)
(* Inputs: slide texts and the payloads handed to the constructor         *)
(***************************************************************************)
SlidesEmpty ==
    <<>>

SlidesFacts ==
    S("Fact Checking in 2024 by Zhaoqun Li: accuracy 95.5 on benchmark data")

SlidesShort ==
    S("LLM fact-checking problem")

SlidesCJK ==
    <<"u5927", "u8bed", "u8a00", "u6a21", "u578b">> \o S(" ") \o <<"u4e8b", "u5b9e",
        "u6838", "u67e5">> \o S(" LLM")

SlidesBlank ==
    S(" \n ")

SlideTexts == {SlidesEmpty, SlidesBlank, SlidesFacts, SlidesShort, SlidesCJK}

PayloadEmpty ==
    S("{\"plan\": [], \"script\": []}")

PayloadNoKeys ==
    S("{}")

PayloadNoScript ==
    S("{\"plan\": [{\"slide\": 1, \"title\": \"Intro\", \"duration\": \"1 minute\"}]}")

PayloadNoPlan ==
    S("{\"script\": [{\"slide\": 1, \"text\": \"Hello everyone. Today we discuss fact-checking.\"}]}")

PayloadOneItem ==
    S("{\"plan\": [{\"slide\": 1, \"title\": \"Introduction\", \"duration\": \"2 min\"}], \"script\": [{\"slide\": 1, \"text\": \"Today we study the LLM fact-checking problem, for example accuracy on a benchmark.\"}]}")

PayloadTwoItems ==
    S("{\"plan\": [{\"slide\": 1, \"title\": \"Intro\", \"duration\": \"1 minute\"}, {\"slide\": 2, \"title\": \"Conclusion\", \"duration\": \"1 minute\"}], \"script\": [{\"slide\": 1, \"text\": \"Let's begin with the problem.\"}, {\"slide\": 2, \"text\": \"In conclusion, fact-checking matters. Thank you.\"}]}")

PayloadPace ==
    S("{\"plan\": [{\"slide\": 1, \"title\": \"Intro\", \"duration\": \"30 seconds\"}, {\"slide\": 2, \"title\": \"The Big Problem\", \"duration\": \"30 seconds\"}, {\"slide\": 3, \"title\": \"Summary\", \"duration\": \"10 min\"}], \"script\": [{\"slide\": 1, \"text\": \"Hello everyone.\"}, {\"slide\": 2, \"text\": \"Next, the problem is big. This means data.\"}, {\"slide\": 3, \"text\": \"We end here.\"}]}")

PayloadUntimed ==
    S("{\"plan\": [{\"slide\": 1, \"title\": \"Intro\"}, {\"slide\": 2, \"title\": \"Methods\", \"duration\": \"soon\"}, {\"slide\": 3, \"title\": \"End\", \"duration\": \"\"}], \"script\": [{\"slide\": 1, \"text\": \"Checking facts in 2024 with Zhaoqun Li.\"}, {\"slide\": 3, \"text\": \"However accuracy was 95.5 today.\"}]}")

PayloadGood ==
    S("{\"plan\": [{\"slide\": 1, \"title\": \"Introduction\", \"duration\": \"2 min\"}, {\"slide\": 2, \"title\": \"Fact Checking\", \"duration\": \"2 min\"}, {\"slide\": 3, \"title\": \"Conclusion\", \"duration\": \"2 min\"}], \"script\": [{\"slide\": 1, \"text\": \"Today our fact checking benchmark data from 2024 by Zhaoqun Li shows accuracy 95.5 for example on this problem.\"}, {\"slide\": 2, \"text\": \"Next our LLM evaluation dataset gives evidence that checking accuracy is an important challenge.\"}, {\"slide\": 3, \"text\": \"In conclusion this means the goal of fact checking is a verification algorithm for the benchmark.\"}]}")

PayloadMixed ==
    S("{\"plan\": [{\"slide\": 2, \"title\": \"Results\", \"duration\": \"90s\"}, {\"slide\": 1, \"title\": \"Plan\", \"duration\": \"1.5 min\"}, {\"slide\": 3, \"title\": \"Q&A\", \"duration\": \"2h\"}, {\"slide\": 4, \"title\": \"More\", \"duration\": \"2 min\"}], \"script\": [{\"slide\": 2, \"text\": \"\\u6211\\u4eec \\u4eca\\u5929 \\u8ba8\\u8bba \\u5927\\u8bed\\u8a00\\u6a21\\u578b\\u3002\\u73b0\\u5728 \\u5f00\\u59cb!\"}, {\"slide\": 1, \"text\": \"LLM LLM LLM LLM\"}]}")

PayloadFencedJson ==
    <<"u0060", "u0060", "u0060">>
        \o S("json\n{\"plan\": [{\"slide\": 1, \"title\": \"Intro\", \"duration\": \"1 minute\"}, {\"slide\": 2, \"title\": \"Conclusion\", \"duration\": \"1 minute\"}], \"script\": [{\"slide\": 1, \"text\": \"Let's begin with the problem.\"}, {\"slide\": 2, \"text\": \"In conclusion, fact-checking matters. Thank you.\"}]}\n")
        \o <<"u0060", "u0060", "u0060">>

PayloadFenced ==
    <<"u0060", "u0060", "u0060">>
        \o S("\n{\"plan\": [{\"slide\": 1, \"title\": \"Intro\", \"duration\": \"30 seconds\"}, {\"slide\": 2, \"title\": \"The Big Problem\", \"duration\": \"30 seconds\"}, {\"slide\": 3, \"title\": \"Summary\", \"duration\": \"10 min\"}], \"script\": [{\"slide\": 1, \"text\": \"Hello everyone.\"}, {\"slide\": 2, \"text\": \"Next, the problem is big. This means data.\"}, {\"slide\": 3, \"text\": \"We end here.\"}]}\n")
        \o <<"u0060", "u0060", "u0060">>

PayloadPadded ==
    S("  \n{\"plan\": [{\"slide\": 1, \"title\": \"Introduction\", \"duration\": \"2 min\"}], \"script\": [{\"slide\": 1, \"text\": \"Today we study the LLM fact-checking problem, for example accuracy on a benchmark.\"}]}\n ")

PayloadList ==
    S("[]")

PayloadNotJson ==
    S("not json")

PayloadTruncated ==
    S("{\"script\": [")

PayloadEmptyText ==
    <<>>

PayloadFencedBad ==
    <<"u0060", "u0060", "u0060">> \o S("json\n{oops}\n") \o <<"u0060", "u0060",
        "u0060">>

Payloads ==
    {PayloadEmpty, PayloadNoKeys, PayloadNoScript, PayloadNoPlan, PayloadOneItem,
     PayloadTwoItems, PayloadPace, PayloadUntimed, PayloadGood, PayloadMixed,
     PayloadFencedJson, PayloadFenced, PayloadPadded, PayloadList, PayloadNotJson,
     PayloadTruncated, PayloadEmptyText, PayloadFencedBad}

\* json.loads on the texts above: the documents that parse, each with its value.
\* A JSON object is [kind |-> "dict", val |-> key :> value @@ ...]; every other
\* text raises json.JSONDecodeError.
JsonDocuments ==
    <<
      [text |-> PayloadEmpty,
       value |-> [kind |-> "dict", val |-> ("plan" :> <<>> @@ "script" :> <<>>)]],
      [text |-> PayloadNoKeys,
       value |-> [kind |-> "dict", val |-> <<>>]],
      [text |-> PayloadNoScript,
       value |-> [kind |-> "dict", val |-> ("plan" :> <<[slide |-> 1,
          title |-> S("Intro"), duration |-> S("1 minute")]>>)]],
      [text |-> PayloadNoPlan,
       value |-> [kind |-> "dict", val |-> ("script" :> <<[slide |-> 1,
          text |-> S("Hello everyone. Today we discuss fact-checking.")]>>)]],
      [text |-> PayloadOneItem,
       value |-> [kind |-> "dict", val |-> ("plan" :> <<[slide |-> 1,
          title |-> S("Introduction"), duration |-> S("2 min")]>>
          @@ "script" :> <<[slide |-> 1,
          text |-> S("Today we study the LLM fact-checking problem, for example accuracy on a benchmark.")]>>)]],
      [text |-> PayloadTwoItems,
       value |-> [kind |-> "dict", val |-> ("plan" :> <<[slide |-> 1,
          title |-> S("Intro"), duration |-> S("1 minute")], [slide |-> 2,
          title |-> S("Conclusion"), duration |-> S("1 minute")]>>
          @@ "script" :> <<[slide |-> 1, text |-> S("Let's begin with the problem.")],
          [slide |-> 2,
          text |-> S("In conclusion, fact-checking matters. Thank you.")]>>)]],
      [text |-> PayloadPace,
       value |-> [kind |-> "dict", val |-> ("plan" :> <<[slide |-> 1,
          title |-> S("Intro"), duration |-> S("30 seconds")], [slide |-> 2,
          title |-> S("The Big Problem"), duration |-> S("30 seconds")], [slide |-> 3,
          title |-> S("Summary"), duration |-> S("10 min")]>>
          @@ "script" :> <<[slide |-> 1, text |-> S("Hello everyone.")], [slide |-> 2,
          text |-> S("Next, the problem is big. This means data.")], [slide |-> 3,
          text |-> S("We end here.")]>>)]],
      [text |-> PayloadUntimed,
       value |-> [kind |-> "dict", val |-> ("plan" :> <<[slide |-> 1,
          title |-> S("Intro")], [slide |-> 2, title |-> S("Methods"),
          duration |-> S("soon")], [slide |-> 3, title |-> S("End"),
          duration |-> <<>>]>> @@ "script" :> <<[slide |-> 1,
          text |-> S("Checking facts in 2024 with Zhaoqun Li.")], [slide |-> 3,
          text |-> S("However accuracy was 95.5 today.")]>>)]],
      [text |-> PayloadGood,
       value |-> [kind |-> "dict", val |-> ("plan" :> <<[slide |-> 1,
          title |-> S("Introduction"), duration |-> S("2 min")], [slide |-> 2,
          title |-> S("Fact Checking"), duration |-> S("2 min")], [slide |-> 3,
          title |-> S("Conclusion"), duration |-> S("2 min")]>>
          @@ "script" :> <<[slide |-> 1,
          text |-> S("Today our fact checking benchmark data from 2024 by Zhaoqun Li shows accuracy 95.5 for example on this problem.")],
          [slide |-> 2,
          text |-> S("Next our LLM evaluation dataset gives evidence that checking accuracy is an important challenge.")],
          [slide |-> 3,
          text |-> S("In conclusion this means the goal of fact checking is a verification algorithm for the benchmark.")]>>)]],
      [text |-> PayloadMixed,
       value |-> [kind |-> "dict", val |-> ("plan" :> <<[slide |-> 2,
          title |-> S("Results"), duration |-> S("90s")], [slide |-> 1,
          title |-> S("Plan"), duration |-> S("1.5 min")], [slide |-> 3,
          title |-> S("Q&A"), duration |-> S("2h")], [slide |-> 4, title |-> S("More"),
          duration |-> S("2 min")]>> @@ "script" :> <<[slide |-> 2, text |-> <<"u6211",
          "u4eec">> \o S(" ") \o <<"u4eca", "u5929">> \o S(" ") \o <<"u8ba8", "u8bba">>
          \o S(" ") \o <<"u5927", "u8bed", "u8a00", "u6a21", "u578b", "u3002", "u73b0",
          "u5728">> \o S(" ") \o <<"u5f00", "u59cb">> \o S("!")], [slide |-> 1,
          text |-> S("LLM LLM LLM LLM")]>>)]],
      [text |-> PayloadList,
       value |-> [kind |-> "list", val |-> <<>>]]
    >>


(***************************************************************************)
(* Constructor                                                             *)
(***************************************************************************)
NoError == [type |-> "None", doc |-> <<>>]
JSONDecodeError(doc) == [type |-> "JSONDecodeError", doc |-> doc]
AttributeError == [type |-> "AttributeError", doc |-> <<>>]

IsJson(text) == text \in {JsonDocuments[i].text : i \in 1..Len(JsonDocuments)}

\* json.loads(text) for a text that parses
json_loads(text) ==
    LET Find(docs) == docs[CHOOSE i \in 1..Len(docs) : docs[i].text = text].value
    IN  Find(JsonDocuments)

Fence == <<"u0060", "u0060", "u0060">>

\* the text handed to json.loads when only the three backticks are taken off
StripFenceBackticks(speech_json_str) ==
    LET Tail3(s3) == IF EndsWith(s3, Fence) THEN SubSeq(s3, 1, Len(s3) - 3) ELSE s3
        Head3(s2) == Tail3(IF StartsWith(s2, Fence) THEN SubSeq(s2, 4, Len(s2)) ELSE s2)
    IN  Strip(Head3(Strip(speech_json_str)))
\* The text __init__ hands to json.loads.
StripFence(speech_json_str) ==
    LET Tail3(s3) == IF EndsWith(s3, Fence) THEN SubSeq(s3, 1, Len(s3) - 3) ELSE s3
        Head3(s2) == Tail3(IF StartsWith(s2, Fence) THEN SubSeq(s2, 4, Len(s2)) ELSE s2)
        Head7(s1) == Head3(IF StartsWith(s1, Fence \o S("json"))
                           THEN SubSeq(s1, 8, Len(s1)) ELSE s1)
    IN  Strip(Head7(Strip(speech_json_str)))

KeyError == [type |-> "KeyError", doc |-> <<>>]

\* __init__ reading data['script'] in place of data.get('script', [])
__init__script_required(slides_text, speech_json_str) ==
    LET Raise(exc) == [raised |-> exc, slides_content |-> <<>>, speech_data |-> <<>>,
                       plan |-> <<>>, script |-> <<>>]
        Fields(data) ==
            IF "script" \notin DOMAIN data THEN Raise(KeyError)
            ELSE [raised |-> NoError,
                  slides_content |-> slides_text,
                  speech_data |-> data,
                  plan |-> Get(data, "plan", <<>>),
                  script |-> data["script"]]
        Loaded(value) == IF value.kind # "dict" THEN Raise(AttributeError)
                         ELSE Fields(value.val)
        Load(text) == IF ~IsJson(text) THEN Raise(JSONDecodeError(text))
                      ELSE Loaded(json_loads(text))
    IN  Load(StripFence(speech_json_str))

\* __init__ catching the error of json.loads and going on with an empty dict
__init__lenient(slides_text, speech_json_str) ==
    LET Raise(exc) == [raised |-> exc, slides_content |-> <<>>, speech_data |-> <<>>,
                       plan |-> <<>>, script |-> <<>>]
        Fields(data) ==
            [raised |-> NoError,
             slides_content |-> slides_text,
             speech_data |-> data,
             plan |-> Get(data, "plan", <<>>),
             script |-> Get(data, "script", <<>>)]
        Loaded(value) == IF value.kind # "dict" THEN Raise(AttributeError)
                         ELSE Fields(value.val)
        Load(text) == IF ~IsJson(text) THEN Fields(<<>>)
                      ELSE Loaded(json_loads(text))
    IN  Load(StripFence(speech_json_str))
\* SpeechEvaluator(slides_text, speech_json_str): the fields of the evaluator it
\* returns, or the exception it raises (and then there is no evaluator: the
\* half-built object is never bound to a name).
__init__(slides_text, speech_json_str) ==
    LET Raise(exc) == [raised |-> exc, slides_content |-> <<>>, speech_data |-> <<>>,
                       plan |-> <<>>, script |-> <<>>]
        Fields(data) ==
            [raised |-> NoError,
             slides_content |-> slides_text,
             speech_data |-> data,
             plan |-> Get(data, "plan", <<>>),
             script |-> Get(data, "script", <<>>)]
        Loaded(value) == IF value.kind # "dict" THEN Raise(AttributeError)
                         ELSE Fields(value.val)
        Load(text) == IF ~IsJson(text) THEN Raise(JSONDecodeError(text))
                      ELSE Loaded(json_loads(text))
    IN  Load(StripFence(speech_json_str))

\* What the scorers read of an evaluator.
SelfOf(ev) == [slides_content |-> ev.slides_content, plan |-> ev.plan, script |-> ev.script]

\* The evaluators the inputs construct, and the result and the report of each;
\* the scorers are pure, so a transition looks its value up here.
\* the outcome of the constructor for every slide text and payload
Constructed == [q \in SlideTexts \X Payloads |-> __init__(q[1], q[2])] @@ <<>>

Evaluators ==
    LET Built == {Constructed[q] : q \in SlideTexts \X Payloads}
    IN  {SelfOf(ev) : ev \in {e \in Built : e.raised = NoError}}

\* (f @@ <<>> is f with its values computed once)
Evaluated == [self \in Evaluators |-> evaluate_all(self)] @@ <<>>

Reported == [self \in Evaluators |-> generate_report(self)] @@ <<>>

Results(self) == Evaluated[self]

Report(self) == Reported[self]

(***************************************************************************)
(* State                                                                   *)
(***************************************************************************)
VARIABLES
    pdf_text,      \* the arguments the evaluator is constructed from
    speech_json,
    phase,            \* "new": not constructed, "ready": evaluator constructed,
                      \* "failed": the constructor raised, "pure": no evaluator
    slides_content,   \* the fields of the evaluator
    speech_data,
    plan,
    script,
    error,            \* the exception the constructor raised
    returned,         \* the last call on the evaluator and the value it returned
    first_result,     \* what the first evaluate_all returned
    calls,            \* how many times evaluate_all has returned, up to MaxCalls
    report,           \* the last report generated
    output_file,      \* the report file evaluate_from_files wrote
    fn_args,          \* the arguments of a function applied on its own
    fn_ret,           \* and the value it returned
    evaluators,       \* the evaluators of a batch, each with its fields and the
                      \* last call on it
    llm               \* the call of QwenSpeechEvaluator.evaluate_speech: where
                      \* it stands, the API requests issued, what came back

vars == <<pdf_text, speech_json, phase, slides_content, speech_data, plan,
          script, error, returned, first_result, calls, report, output_file,
          fn_args, fn_ret, evaluators, llm>>

args_vars == <<pdf_text, speech_json>>
field_vars == <<slides_content, speech_data, plan, script>>
fn_vars == <<fn_args, fn_ret, evaluators, llm>>

\* evaluate_speech has not been called
NoResult == [kind |-> "None", val |-> <<>>]
NoCompletion ==
    [pc |-> "idle", response_format |-> "None", requests |-> 0, caught |-> "None",
     raised |-> "None", content |-> <<>>, result |-> <<>>]

MaxCalls == 2

NoCall == [call |-> "None", value |-> <<>>]
NoReport == [rendered |-> FALSE, text |-> <<>>]

Self == [slides_content |-> slides_content, plan |-> plan, script |-> script]

Init ==
    /\ pdf_text \in SlideTexts
    /\ speech_json \in Payloads
    /\ phase = "new"
    /\ slides_content = <<>>
    /\ speech_data = <<>>
    /\ plan = <<>>
    /\ script = <<>>
    /\ error = NoError
    /\ returned = NoCall
    /\ first_result = <<>>
    /\ calls = 0
    /\ report = NoReport
    /\ output_file = NoReport
    /\ fn_args = <<>>
    /\ fn_ret = <<>>
    /\ evaluators = <<>>
    /\ llm = NoCompletion

\* evaluator = SpeechEvaluator(pdf_text, speech_json)
Construct ==
    /\ phase = "new"
    /\ LET Bind(ev) ==
               /\ phase' = IF ev.raised = NoError THEN "ready" ELSE "failed"
               /\ error' = ev.raised
               /\ slides_content' = ev.slides_content
               /\ speech_data' = ev.speech_data
               /\ plan' = ev.plan
               /\ script' = ev.script
       IN  Bind(__init__(pdf_text, speech_json))
    /\ UNCHANGED <<args_vars, returned, first_result, calls, report, output_file,
                   fn_vars>>

\* A second evaluator is constructed from the same arguments and takes the
\* place of the first.
Rebuild ==
    /\ phase = "ready"
    /\ LET Bind(ev) ==
               /\ slides_content' = ev.slides_content
               /\ speech_data' = ev.speech_data
               /\ plan' = ev.plan
               /\ script' = ev.script
       IN  Bind(__init__(pdf_text, speech_json))
    /\ returned' = [call |-> "__init__", value |-> <<>>]
    /\ UNCHANGED <<args_vars, phase, error, first_result, calls, report, output_file,
                   fn_vars>>

\* a scorer that takes the items off the script as it reads them
ScorerConsuming(name, value) ==
    /\ phase = "ready"
    /\ returned' = [call |-> name, value |-> value]
    /\ script' = <<>>
    /\ UNCHANGED <<args_vars, phase, slides_content, speech_data, plan, error,
                   first_result, calls, report, output_file, fn_vars>>
\* One of the five scorers is called on the evaluator.
Scorer(name, value) ==
    /\ phase = "ready"
    /\ returned' = [call |-> name, value |-> value]
    /\ UNCHANGED <<args_vars, phase, field_vars, error, first_result, calls, report,
                   output_file, fn_vars>>

EvaluateContentConsistency ==
    Scorer("evaluate_content_consistency", Results(Self).content_consistency)

EvaluateStructure == Scorer("evaluate_structure", Results(Self).structure)

EvaluateLanguageQuality ==
    Scorer("evaluate_language_quality", Results(Self).language_quality)

EvaluateDetailRichness ==
    Scorer("evaluate_detail_richness", Results(Self).detail_richness)

EvaluateTimeManagement ==
    Scorer("evaluate_time_management", Results(Self).time_management)

\* evaluate_all keeping a running state across calls: from the second call on
\* the overall score is diluted by the calls that came before
EvaluateAllDiluted ==
    /\ phase = "ready"
    /\ LET Return(results) ==
               /\ returned' = [call |-> "evaluate_all", value |-> results]
               /\ first_result' = IF calls = 0 THEN results ELSE first_result
           Dilute(results) ==
               [results EXCEPT !.overall_score = RDiv(@, F(calls + 1))]
       IN  Return(Dilute(Results(Self)))
    /\ calls' = IF calls < MaxCalls THEN calls + 1 ELSE calls
    /\ UNCHANGED <<args_vars, phase, field_vars, error, report, output_file, fn_vars>>
\* results = evaluator.evaluate_all()
EvaluateAll ==
    /\ phase = "ready"
    /\ LET Return(results) ==
               /\ returned' = [call |-> "evaluate_all", value |-> results]
               /\ first_result' = IF calls = 0 THEN results ELSE first_result
       IN  Return(Results(Self))
    /\ calls' = IF calls < MaxCalls THEN calls + 1 ELSE calls
    /\ UNCHANGED <<args_vars, phase, field_vars, error, report, output_file, fn_vars>>

\* report = evaluator.generate_report()
GenerateReport ==
    /\ phase = "ready"
    /\ LET Return(text) ==
               /\ report' = [rendered |-> TRUE, text |-> text]
               /\ returned' = [call |-> "generate_report", value |-> text]
       IN  Return(Report(Self))
    /\ UNCHANGED <<args_vars, phase, field_vars, error, first_result, calls,
                   output_file, fn_vars>>

\* evaluate_from_files(pdf_text, speech_json_path), the file holding
\* speech_json: the evaluator is constructed, its report is generated and
\* written, and evaluate_all's value is returned.
EvaluateFromFiles ==
    /\ phase = "new"
    /\ LET Run(text, results) ==
               /\ report' = [rendered |-> TRUE, text |-> text]
               /\ output_file' = [rendered |-> TRUE, text |-> text]
               /\ returned' = [call |-> "evaluate_from_files", value |-> results]
               /\ first_result' = results
               /\ calls' = 1
           Open(ev) ==
               /\ error' = ev.raised
               /\ slides_content' = ev.slides_content
               /\ speech_data' = ev.speech_data
               /\ plan' = ev.plan
               /\ script' = ev.script
               /\ IF ev.raised = NoError
                  THEN /\ phase' = "ready"
                       /\ Run(Report(SelfOf(ev)), Results(SelfOf(ev)))
                  ELSE /\ phase' = "failed"
                       /\ UNCHANGED <<report, output_file, returned, first_result,
                                      calls>>
       IN  Open(__init__(pdf_text, speech_json))
    /\ UNCHANGED <<args_vars, fn_vars>>

Next ==
    \/ Construct
    \/ Rebuild
    \/ EvaluateContentConsistency
    \/ EvaluateStructure
    \/ EvaluateLanguageQuality
    \/ EvaluateDetailRichness
    \/ EvaluateTimeManagement
    \/ EvaluateAll
    \/ GenerateReport
    \/ EvaluateFromFiles

Spec == Init /\ [][Next]_vars

\* ---------------------------------------------------------------------------
\* Functions applied on their own: no evaluator is constructed, the arguments
\* are in fn_args and the value returned in fn_ret.

NoEvaluator ==
    /\ pdf_text = <<>>
    /\ speech_json = <<>>
    /\ phase = "pure"
    /\ slides_content = <<>>
    /\ speech_data = <<>>
    /\ plan = <<>>
    /\ script = <<>>
    /\ error = NoError
    /\ returned = NoCall
    /\ first_result = <<>>
    /\ calls = 0
    /\ report = NoReport
    /\ output_file = NoReport
    /\ evaluators = <<>>
    /\ llm = NoCompletion

Apply(value) ==
    /\ phase = "pure"
    /\ fn_ret = <<>>
    /\ fn_ret' = <<value>>
    /\ UNCHANGED <<args_vars, phase, field_vars, error, returned, first_result,
                   calls, report, output_file, fn_args, evaluators, llm>>

\* _parse_duration(duration_str) over duration strings: a number followed by
\* a unit word
DurationNumbers == <<"2", "120", "30", "1.5", "90", "0", "10", "0.5", "">>
DurationUnits ==
    <<" minutes", " minute", " min", "min", "m", " Minutes", " seconds",
      " second", " sec", "s", " Seconds", " hours", " hour", "h", "">>
DurationStrings ==
    {S(DurationNumbers[i] \o DurationUnits[j]) :
        i \in 1..Len(DurationNumbers), j \in 1..Len(DurationUnits)}

InitDuration ==
    /\ NoEvaluator
    /\ fn_args \in {<<d>> : d \in DurationStrings}
    /\ fn_ret = <<>>

ParseDuration == Apply(_parse_duration(fn_args[1]))

NextDuration == ParseDuration

SpecDuration == InitDuration /\ [][NextDuration]_vars

\* _get_grade(score) over pairs of scores k/ScoreDen in [0, 1]
ScoreDen == 20
Scores == {R(k, ScoreDen) : k \in 0..ScoreDen}

InitGrade ==
    /\ NoEvaluator
    /\ fn_args \in Scores \X Scores
    /\ fn_ret = <<>>

GetGrade == Apply(<<_get_grade(fn_args[1]), _get_grade(fn_args[2])>>)

NextGrade == GetGrade

SpecGrade == InitGrade /\ [][NextGrade]_vars

\* The aggregation of evaluate_all in double arithmetic, over the dimension
\* scores 0.0, 1.0 and the doubles 1, 2, 4, .., 2^UlpBits places below 1.0
UlpBits == 4
One == Double(1, 1)
DimensionScores == {Zero, One} \cup {BelowOne(2 ^ j) : j \in 0..UlpBits}
DimensionResults ==
    {[d \in Range(DimensionNames) |-> [overall_score |-> f[d]]] :
        f \in [Range(DimensionNames) -> DimensionScores]}

InitAggregate ==
    /\ NoEvaluator
    /\ fn_args \in {<<r>> : r \in DimensionResults}
    /\ fn_ret = <<>>

Aggregate == Apply(WeightedSumDouble(fn_args[1], weights_double))

NextAggregate == Aggregate

SpecAggregate == InitAggregate /\ [][NextAggregate]_vars

\* _calculate_coverage, _detect_hallucination_risk and the dictionary of
\* evaluate_content_consistency over keyword sets: the slides' keywords are
\* the first few of MaxKeywords distinct keywords, a speech's keywords are a
\* run of consecutive ones
MaxKeywords == 10
KeywordRuns == {a..b : a \in 1..(MaxKeywords + 1), b \in 0..MaxKeywords}
KeywordPrefixes == {1..b : b \in 0..MaxKeywords}
OtherScores == {F(0), R(1, 2), F(1)}

InitKeywords ==
    /\ NoEvaluator
    /\ fn_args \in KeywordPrefixes \X KeywordRuns \X KeywordPrefixes
    /\ fn_ret = <<>>

CalculateCoverage ==
    Apply([fn |-> "_calculate_coverage",
           value |-> _calculate_coverage(fn_args[1], fn_args[2])])

DetectHallucinationRisk ==
    Apply([fn |-> "_detect_hallucination_risk",
           value |-> _detect_hallucination_risk(fn_args[1], fn_args[2])])

\* the dictionaries of two speeches over the same slides, with the same
\* concept coverage, title coverage and fact accuracy
ContentConsistency ==
    \E common \in OtherScores :
        Apply([fn |-> "evaluate_content_consistency",
               value |-> ContentScores(_calculate_coverage(fn_args[1], fn_args[2]),
                                       common, common,
                                       _detect_hallucination_risk(fn_args[1], fn_args[2]),
                                       common),
               other |-> ContentScores(_calculate_coverage(fn_args[1], fn_args[3]),
                                       common, common,
                                       _detect_hallucination_risk(fn_args[1], fn_args[3]),
                                       common)])

NextKeywords == CalculateCoverage \/ DetectHallucinationRisk \/ ContentConsistency

SpecKeywords == InitKeywords /\ [][NextKeywords]_vars

\* _evaluate_transitions over the scripts of at most MaxItems items, the
\* text of each one of ScriptTexts
MaxItems == 3
TextPlain == S("We like data")
TextLate == S("Hello everyone. Next we begin.")
TextConclusion == S("In conclusion we stop.")
TextExclaimed == S("Great! Now we move on. The end.")
TextUpper == S("NEXT: results")
TextCJK == <<"u4f60", "u597d", "u3002", "u63a5", "u4e0b", "u6765", "u770b">>
ScriptTexts ==
    {<<>>, TextPlain, TextLate, TextConclusion, TextExclaimed, TextUpper, TextCJK}
Scripts ==
    UNION {[1..n -> {[slide |-> 1, text |-> t] : t \in ScriptTexts}] : n \in 0..MaxItems}

InitTransitions ==
    /\ NoEvaluator
    /\ fn_args \in {<<items>> : items \in Scripts}
    /\ fn_ret = <<>>

EvaluateTransitions == Apply(_evaluate_transitions([script |-> fn_args[1]]))

NextTransitions == EvaluateTransitions

SpecTransitions == InitTransitions /\ [][NextTransitions]_vars

\* _generate_suggestions and _generate_strengths over the dictionaries of
\* evaluate_all: the content consistency, the structure and the other three
\* dimensions have a level each that their sub-metrics take (the
\* hallucination risk takes one minus it), one sub-metric, the focus, takes
\* a score of its own, and the plan has two slides with at most two minutes
SubMetrics ==
    {"keyword_coverage", "concept_coverage", "slide_title_coverage", "fact_accuracy",
     "hallucination_risk_score", "coherence_score", "time_balance_score",
     "transition_score", "organization_score", "clarity_score",
     "conversational_score", "vocabulary_richness", "professionalism_score",
     "expansion_ratio_score", "example_usage_score", "explanation_quality",
     "context_provision", "duration_appropriateness", "time_distribution_score",
     "pace_consistency"}
DimensionLevels == {F(0), R(7, 10), F(1)}
FeedbackLevels ==
    {[d \in Range(DimensionNames) |->
         IF d = "content_consistency" THEN t[1]
         ELSE IF d = "structure" THEN t[2]
         ELSE t[3]] : t \in DimensionLevels \X DimensionLevels \X DimensionLevels}

ResultsOf(level, focus, score) ==
    LET V(d, k) ==
            IF k = focus THEN score
            ELSE IF k = "hallucination_risk_score" THEN RSub(F(1), level[d])
            ELSE level[d]
        C(k) == V("content_consistency", k)
        St(k) == V("structure", k)
        L(k) == V("language_quality", k)
        D(k) == V("detail_richness", k)
        T(k) == V("time_management", k)
    IN  Aggregated(
            [content_consistency |->
                 ContentScores(C("keyword_coverage"), C("concept_coverage"),
                               C("slide_title_coverage"), C("hallucination_risk_score"),
                               C("fact_accuracy")),
             structure |->
                 StructureScores(St("coherence_score"), St("time_balance_score"),
                                 St("transition_score"), St("organization_score")),
             language_quality |->
                 LanguageScores(L("clarity_score"), L("conversational_score"),
                                L("vocabulary_richness"), L("professionalism_score")),
             detail_richness |->
                 DetailScores(D("expansion_ratio_score"), D("example_usage_score"),
                              D("explanation_quality"), D("context_provision")),
             time_management |->
                 TimeScores(RMul(T("duration_appropriateness"), F(2)),
                            T("duration_appropriateness"), T("time_distribution_score"),
                            T("pace_consistency"))])

InitFeedback ==
    /\ NoEvaluator
    /\ fn_args \in {<<ResultsOf(level, focus, score)>> :
                       level \in FeedbackLevels, focus \in SubMetrics, score \in Scores}
    /\ fn_ret = <<>>

\* suggestions = self._generate_suggestions(results) and
\* strengths = self._generate_strengths(results) of generate_report
GenerateFeedback ==
    Apply([suggestions |-> _generate_suggestions(fn_args[1]),
           strengths |-> _generate_strengths(fn_args[1])])

NextFeedback == GenerateFeedback

SpecFeedback == InitFeedback /\ [][NextFeedback]_vars

\* batch_evaluation(pdf_path, speech_files) with BatchSize speech files: one
\* evaluator is constructed for each file from the same slide text, and the
\* scorers and evaluate_all are called on them in any order.  fn_args is
\* <<pdf_text, the speech_json of every file>>.
BatchSize == 2
BatchSlides == {SlidesEmpty, SlidesFacts}
BatchPayloads == {PayloadTwoItems, PayloadGood}
NotConstructed == [built |-> FALSE, self |-> <<>>, returned |-> NoCall]
ScorerCalls ==
    {"evaluate_content_consistency", "evaluate_structure",
     "evaluate_language_quality", "evaluate_detail_richness",
     "evaluate_time_management"}
BatchCalls == ScorerCalls \cup {"evaluate_all"}

InitBatch ==
    /\ pdf_text = <<>>
    /\ speech_json = <<>>
    /\ phase = "batch"
    /\ slides_content = <<>>
    /\ speech_data = <<>>
    /\ plan = <<>>
    /\ script = <<>>
    /\ error = NoError
    /\ returned = NoCall
    /\ first_result = <<>>
    /\ calls = 0
    /\ report = NoReport
    /\ output_file = NoReport
    /\ fn_args \in BatchSlides \X [1..BatchSize -> BatchPayloads]
    /\ fn_ret = <<>>
    /\ evaluators = [i \in 1..BatchSize |-> NotConstructed]
    /\ llm = NoCompletion

batch_vars == <<args_vars, phase, field_vars, error, returned, first_result, calls,
                report, output_file, fn_args, fn_ret, llm>>

\* evaluator = SpeechEvaluator(pdf_text, speech_json) for the i-th file
BatchConstruct(i) ==
    /\ phase = "batch"
    /\ ~evaluators[i].built
    /\ evaluators' =
           [evaluators EXCEPT ![i] =
               [built |-> TRUE,
                self |-> SelfOf(__init__(fn_args[1], fn_args[2][i])),
                returned |-> NoCall]]
    /\ UNCHANGED batch_vars

\* what the call returns on an evaluator with the fields self
ValueOf(self, call) ==
    CASE call = "evaluate_content_consistency" -> Results(self).content_consistency
      [] call = "evaluate_structure" -> Results(self).structure
      [] call = "evaluate_language_quality" -> Results(self).language_quality
      [] call = "evaluate_detail_richness" -> Results(self).detail_richness
      [] call = "evaluate_time_management" -> Results(self).time_management
      [] call = "evaluate_all" -> Results(self)

\* a call that takes its value from a cache kept by the name of the call
\* for all evaluators together
BatchCallCached(i, call) ==
    /\ phase = "batch"
    /\ evaluators[i].built
    /\ LET cached == {j \in 1..BatchSize : evaluators[j].returned.call = call}
           value == IF cached = {} THEN ValueOf(evaluators[i].self, call)
                    ELSE evaluators[CHOOSE j \in cached : TRUE].returned.value
       IN  evaluators' =
               [evaluators EXCEPT ![i].returned = [call |-> call, value |-> value]]
    /\ UNCHANGED batch_vars

\* one of the scorers, or evaluate_all, is called on the i-th evaluator
BatchCall(i, call) ==
    /\ phase = "batch"
    /\ evaluators[i].built
    /\ evaluators' =
           [evaluators EXCEPT ![i].returned =
               [call |-> call, value |-> ValueOf(evaluators[i].self, call)]]
    /\ UNCHANGED batch_vars

NextBatch ==
    \/ \E i \in 1..BatchSize : BatchConstruct(i)
    \/ \E i \in 1..BatchSize : \E call \in BatchCalls : BatchCall(i, call)

SpecBatch == InitBatch /\ [][NextBatch]_vars

\* SpeechEvaluator(slides_text, speech_json_str) over payloads in and out of a
\* markdown fence: white space, the opening fence, white space, the body,
\* white space, the closing fence, white space
FenceBodies ==
    {PayloadEmpty, PayloadNoKeys, PayloadOneItem, PayloadTwoItems, PayloadPace,
     PayloadGood, PayloadMixed, PayloadList, PayloadNotJson}
FenceShapes == {<<Fence \o S("json"), Fence>>, <<Fence, Fence>>, <<<<>>, <<>>>>}
FenceSpaces == {<<>>, S("\n"), S(" \t\r\n")}
Fenced(body, shape, spaces) ==
    spaces[1] \o shape[1] \o spaces[2] \o body \o spaces[3] \o shape[2] \o spaces[4]

InitFence ==
    /\ NoEvaluator
    /\ fn_args \in {SlidesFacts} \X FenceBodies \X FenceShapes
                   \X (FenceSpaces \X FenceSpaces \X FenceSpaces \X FenceSpaces)
    /\ fn_ret = <<>>

\* the evaluator constructed and the result of evaluate_all on it
ConstructedAndEvaluated(slides_text, speech_json_str) ==
    LET Outcome(ev) ==
            [raised |-> ev.raised.type, plan |-> ev.plan, script |-> ev.script,
             result |-> IF ev.raised = NoError THEN <<Results(SelfOf(ev))>> ELSE <<>>]
    IN  Outcome(__init__(slides_text, speech_json_str))

ConstructFenced ==
    Apply([fenced |-> ConstructedAndEvaluated(fn_args[1],
                          Fenced(fn_args[2], fn_args[3], fn_args[4])),
           plain |-> ConstructedAndEvaluated(fn_args[1], fn_args[2])])

NextFence == ConstructFenced

SpecFence == InitFence /\ [][NextFence]_vars

\* The time scorers over a plan of timed items and over the same plan with
\* one item without a usable duration put in: no duration key, an empty
\* string, a string without a number, or zero minutes.
TimedStrings == {S("1 minute"), S("2 min"), S("30 seconds"), S("4 min")}
TimedPlans ==
    UNION {[1..n -> {[slide |-> 1, title |-> S("Part"), duration |-> d] :
                        d \in TimedStrings}] : n \in 1..MaxItems}
UntimedItems ==
    {[slide |-> 1, title |-> S("Part")]}
        \cup {[slide |-> 1, title |-> S("Part"), duration |-> d] :
                 d \in {<<>>, S("soon"), S("0 min")}}
Inserted(items, item, at) ==
    SubSeq(items, 1, at) \o <<item>> \o SubSeq(items, at + 1, Len(items))

InitUntimed ==
    /\ NoEvaluator
    /\ fn_args \in {q \in TimedPlans \X UntimedItems \X (0..MaxItems) : q[3] <= Len(q[1])}
    /\ fn_ret = <<>>

TimeScorers(self) ==
    [time_balance |-> _evaluate_time_balance(self),
     time_management |-> evaluate_time_management(self)]

EvaluateUntimed ==
    Apply([timed |-> TimeScorers([plan |-> fn_args[1]]),
           untimed |-> TimeScorers([plan |-> Inserted(fn_args[1], fn_args[2], fn_args[3])])])

NextUntimed == EvaluateUntimed

SpecUntimed == InitUntimed /\ [][NextUntimed]_vars

\* _check_example_usage and _evaluate_explanations over scripts of up to
\* MaxScript items, the first with up to MaxMarkers example indicators and
\* up to MaxMarkers explanation markers
MaxScript == 6
MaxMarkers == 3
Repeated(text, k) == [i \in 1..(k * Len(text)) |-> text[((i - 1) % Len(text)) + 1]]
MarkedScript(itemCount, examples, explanations) ==
    [i \in 1..itemCount |->
        [slide |-> i,
         text |-> IF i = 1
                  THEN S("We begin ") \o Repeated(S("for instance "), examples)
                           \o Repeated(S("Namely "), explanations)
                  ELSE S("We go on.")]]

InitMarkers ==
    /\ NoEvaluator
    /\ fn_args \in {q \in (0..MaxScript) \X (0..MaxMarkers) \X (0..MaxMarkers) :
                       q[1] = 0 => (q[2] = 0 /\ q[3] = 0)}
    /\ fn_ret = <<>>

CheckExampleUsage ==
    Apply([fn |-> "_check_example_usage",
           value |-> _check_example_usage(
                         [script |-> MarkedScript(fn_args[1], fn_args[2], fn_args[3])])])

EvaluateExplanations ==
    Apply([fn |-> "_evaluate_explanations",
           value |-> _evaluate_explanations(
                         [script |-> MarkedScript(fn_args[1], fn_args[2], fn_args[3])])])

NextMarkers == CheckExampleUsage \/ EvaluateExplanations

SpecMarkers == InitMarkers /\ [][NextMarkers]_vars

\* _detect_hallucination_risk in double arithmetic

\* risk_ratio / 0.3 * 0.3
MapBelowDouble(risk_ratio) == FMul(FDiv(risk_ratio, Double(3, 10)), Double(3, 10))

\* a second piece that starts at 0.4 instead of 0.3
MapAboveRaisedDouble(risk_ratio) ==
    FAdd(Double(4, 10),
         FMul(FDiv(FSub(risk_ratio, Double(3, 10)), Double(7, 10)), Double(6, 10)))

\* 0.3 + (risk_ratio - 0.3) / 0.7 * 0.7
MapAboveDouble(risk_ratio) ==
    FAdd(Double(3, 10),
         FMul(FDiv(FSub(risk_ratio, Double(3, 10)), Double(7, 10)), Double(7, 10)))

HallucinationRiskDouble(source_keywords, target_keywords) ==
    LET new_keywords == target_keywords \ source_keywords
        Remap(risk_ratio) ==
            IF FLe(risk_ratio, Double(3, 10)) THEN MapBelowDouble(risk_ratio)
            ELSE MapAboveDouble(risk_ratio)
    IN  IF target_keywords = {} THEN Zero
        ELSE Remap(Double(Cardinality(new_keywords), Cardinality(target_keywords)))

\* The risk of two speeches: <<k, n>> stands for a speech with n keywords
\* of which k are not among the slides' keywords.  The second speech has
\* the same share of new keywords or a share larger by 1 / MaxTarget at
\* most; a share and the next larger one are never further apart.
MaxTarget == 30
KeywordCounts == {q \in (0..MaxTarget) \X (1..MaxTarget) : q[1] <= q[2]}
NextShares ==
    {qp \in KeywordCounts \X KeywordCounts :
        /\ qp[2][1] * qp[1][2] >= qp[1][1] * qp[2][2]
        /\ (qp[2][1] * qp[1][2] - qp[1][1] * qp[2][2]) * MaxTarget
               <= qp[1][2] * qp[2][2]}
NoKeywords == <<0, 0>>

\* (f @@ <<>> is f with its values computed once)
RiskOfCounts ==
    [q \in KeywordCounts \cup {NoKeywords} |->
        HallucinationRiskDouble((q[1] + 1)..q[2], 1..q[2])] @@ <<>>

InitRisk ==
    /\ NoEvaluator
    /\ fn_args \in NextShares \cup {<<NoKeywords, NoKeywords>>}
    /\ fn_ret = <<>>

DetectHallucinationRiskDouble ==
    Apply([risk |-> RiskOfCounts[fn_args[1]], other |-> RiskOfCounts[fn_args[2]]])

NextRisk == DetectHallucinationRiskDouble

SpecRisk == InitRisk /\ [][NextRisk]_vars

\* ---------------------------------------------------------------------------
\* QwenSpeechEvaluator.evaluate_speech next to the rule-based evaluator: the
\* call of QwenVLPlus.completion with its API requests, each of which returns
\* a response or raises, and the parsing of the response.

eval_vars == <<args_vars, phase, field_vars, error, returned, first_result, calls,
               report, output_file, fn_args, fn_ret, evaluators>>

\* response_format of completion(messages, enable_thinking, return_json)
ResponseFormat(enable_thinking, return_json) ==
    IF ~enable_thinking /\ return_json THEN "json_object" ELSE "text"

\* what self.llm.chat.completions.create(...) does: it returns a response
\* with a content, or raises one of the errors of the openai client
ResponseTexts == {PayloadNoKeys, PayloadFencedJson, PayloadNotJson}
RetriedErrors == {"RateLimitError", "APITimeoutError"}
ApiErrors == RetriedErrors \cup {"APIConnectionError"}
Outcomes ==
    {[error |-> "None", content |-> <<text>>] : text \in ResponseTexts}
        \cup {[error |-> e, content |-> <<>>] : e \in ApiErrors}

\* QwenSpeechEvaluator._parse_response(response_text)
_parse_response(response_text) ==
    LET Load(cleaned) == IF IsJson(cleaned) THEN json_loads(cleaned) ELSE NoResult
        Closed(c2) == Strip(IF EndsWith(c2, Fence) THEN SubSeq(c2, 1, Len(c2) - 3) ELSE c2)
        Opened(c1) == IF StartsWith(c1, Fence \o S("json")) THEN SubSeq(c1, 8, Len(c1))
                      ELSE IF StartsWith(c1, Fence) THEN SubSeq(c1, 4, Len(c1))
                      ELSE c1
    IN  Load(Closed(Opened(Strip(response_text))))

\* evaluate_speech(slides_text, speech_json) builds the prompt and enters
\* self.qwen.completion(messages, enable_thinking=False, return_json=True)
EvaluateSpeech ==
    /\ llm.pc = "idle"
    /\ llm' = [llm EXCEPT !.pc = "create",
                          !.response_format = ResponseFormat(FALSE, TRUE)]
    /\ UNCHANGED eval_vars

\* the request in the try block of completion
Create(outcome) ==
    /\ llm.pc = "create"
    /\ llm' = IF outcome.error = "None"
              THEN [llm EXCEPT !.pc = "return", !.requests = @ + 1,
                               !.content = outcome.content]
              ELSE IF outcome.error \in RetriedErrors
              THEN [llm EXCEPT !.pc = "sleep", !.requests = @ + 1,
                               !.caught = outcome.error]
              ELSE [llm EXCEPT !.pc = "raised", !.requests = @ + 1,
                               !.raised = outcome.error]
    /\ UNCHANGED eval_vars

\* time.sleep(60) in the handler of RateLimitError or APITimeoutError
Sleep ==
    /\ llm.pc = "sleep"
    /\ llm' = [llm EXCEPT !.pc = "retry"]
    /\ UNCHANGED eval_vars

\* a handler that treats an error of its own request as the try block does
RetryAgain(outcome) ==
    /\ llm.pc = "retry"
    /\ llm' = IF outcome.error = "None"
              THEN [llm EXCEPT !.pc = "return", !.requests = @ + 1,
                               !.content = outcome.content]
              ELSE IF outcome.error \in RetriedErrors
              THEN [llm EXCEPT !.pc = "sleep", !.requests = @ + 1,
                               !.caught = outcome.error]
              ELSE [llm EXCEPT !.pc = "raised", !.requests = @ + 1,
                               !.raised = outcome.error]
    /\ UNCHANGED eval_vars

\* the request in the handler: whatever it raises leaves completion
Retry(outcome) ==
    /\ llm.pc = "retry"
    /\ llm' = IF outcome.error = "None"
              THEN [llm EXCEPT !.pc = "return", !.requests = @ + 1,
                               !.content = outcome.content]
              ELSE [llm EXCEPT !.pc = "raised", !.requests = @ + 1,
                               !.raised = outcome.error]
    /\ UNCHANGED eval_vars

\* completion returns rsp.choices[0].message.content and evaluate_speech
\* returns self._parse_response(response_text)
ParseResponse ==
    /\ llm.pc = "return"
    /\ llm' = [llm EXCEPT !.pc = "done",
                          !.result = <<_parse_response(llm.content[1])>>]
    /\ UNCHANGED eval_vars

\* except Exception in evaluate_speech: return None
CompletionFailed ==
    /\ llm.pc = "raised"
    /\ llm' = [llm EXCEPT !.pc = "done", !.result = <<NoResult>>]
    /\ UNCHANGED eval_vars

NextCompletion ==
    \/ Next
    \/ EvaluateSpeech
    \/ \E outcome \in Outcomes : Create(outcome)
    \/ Sleep
    \/ \E outcome \in Outcomes : Retry(outcome)
    \/ ParseResponse
    \/ CompletionFailed

\* one speech for the slides, and a payload that is not JSON
InitCompletion ==
    /\ Init
    /\ pdf_text = SlidesFacts
    /\ speech_json \in {PayloadTwoItems, PayloadNotJson}

SpecCompletion == InitCompletion /\ [][NextCompletion]_vars

(***************************************************************************)
(* Properties                                                              *)
(***************************************************************************)

\* a float in [0, 1]
InUnit(x) == RLe(F(0), x) /\ RLe(x, F(1))

\* C1, as the code has it: every value a dimension scorer returns lies in
\* [0, 1], the overall_score included, except total_minutes of
\* evaluate_time_management, which is the plan's length in minutes.
C1_ScoresInUnit ==
    returned.call \in ScorerCalls =>
        \A k \in DOMAIN returned.value :
            \/ returned.call = "evaluate_time_management" /\ k = "total_minutes"
            \/ InUnit(returned.value[k])

\* C1 as stated: every value a dimension scorer returns lies in [0, 1].
C1_AllValuesInUnit ==
    returned.call \in ScorerCalls =>
        \A k \in DOMAIN returned.value : InUnit(returned.value[k])

\* evaluate_time_management has returned for a plan longer than a minute:
\* total_minutes is above 1 and every other value is in [0, 1].
C1_LongPlanScored ==
    /\ returned.call = "evaluate_time_management"
    /\ RGt(returned.value.total_minutes, F(1))
    /\ \A k \in DOMAIN returned.value \ {"total_minutes"} :
           InUnit(returned.value[k])

\* C2 as stated: on degenerate input evaluate_all returns, and each sub-metric
\* whose material is missing has the neutral value 1.0: the plan-based ones
\* for an empty plan, the sentence- and word-based ones for an empty script.
C2_NeutralFallback ==
    (phase = "ready" /\ returned.call = "evaluate_all") =>
        /\ plan = <<>> =>
               /\ returned.value.content_consistency.slide_title_coverage = F(1)
               /\ returned.value.structure.time_balance_score = F(1)
               /\ returned.value.time_management.duration_appropriateness = F(1)
               /\ returned.value.time_management.time_distribution_score = F(1)
               /\ returned.value.time_management.pace_consistency = F(1)
        /\ script = <<>> =>
               /\ returned.value.language_quality.clarity_score = F(1)
               /\ returned.value.language_quality.conversational_score = F(1)
               /\ returned.value.language_quality.vocabulary_richness = F(1)

\* the payload, its fence stripped, is a JSON object without the key 'script'
LacksScript(payload) ==
    LET Object(text) ==
            /\ IsJson(text)
            /\ json_loads(text).kind = "dict"
            /\ "script" \notin DOMAIN json_loads(text).val
    IN  Object(StripFence(payload))

\* C3, as the code has it: a payload that is a JSON object without 'script'
\* constructs an evaluator with the empty script (the constructor raises
\* nothing), and the run goes on to evaluate it.
C3_MissingScriptIsEmpty ==
    (phase \in {"ready", "failed"} /\ LacksScript(speech_json)) =>
        /\ phase = "ready"
        /\ error = NoError
        /\ script = <<>>

\* C3 as stated: a payload that is a JSON object without 'script' fails the
\* run with an error, and no evaluation result is produced.
C3_MissingScriptFails ==
    (phase \in {"ready", "failed"} /\ LacksScript(speech_json)) =>
        /\ phase = "failed"
        /\ error # NoError
        /\ returned = NoCall

\* evaluate_all has returned a result for a payload without 'script'
C3_MissingScriptEvaluated ==
    /\ LacksScript(speech_json)
    /\ phase = "ready"
    /\ returned.call = "evaluate_all"
    /\ returned.value.grade = GradeF

\* C4: when the payload, its fence stripped, is not valid JSON, the constructor
\* raises the parse error of json.loads, which carries the text it was given;
\* no field of an evaluator is set, and no scorer, evaluate_all or report ever
\* returns anything for that payload.
C4_InvalidJsonFails ==
    (phase \in {"ready", "failed"} /\ ~IsJson(StripFence(speech_json))) =>
        /\ phase = "failed"
        /\ error = JSONDecodeError(StripFence(speech_json))
        /\ slides_content = <<>> /\ speech_data = <<>>
        /\ plan = <<>> /\ script = <<>>
        /\ returned = NoCall
        /\ first_result = <<>> /\ calls = 0
        /\ report = NoReport /\ output_file = NoReport

\* the constructor has failed on a fenced payload that is not JSON, and the
\* error carries the payload without its fence
C4_FencedGarbageRejected ==
    /\ speech_json = PayloadFencedBad
    /\ phase = "failed"
    /\ error = JSONDecodeError(S("{oops}"))
    /\ returned = NoCall

\* C5 as stated: _parse_duration('120 seconds') and _parse_duration('2 minutes')
\* are both 2.0 minutes.
C5_UnitRoundTrip ==
    fn_ret # <<>> =>
        /\ fn_args[1] = S("120 seconds") => fn_ret[1] = F(2)
        /\ fn_args[1] = S("2 minutes") => fn_ret[1] = F(2)

\* the plan's timed durations are 0.5, 0.5 and 10 minutes
PaceScenario ==
    /\ phase = "ready"
    /\ TimedDurations(Self) = <<R(1, 2), R(1, 2), F(10)>>

\* C6, as the code has it: for plan durations 0.5, 0.5 and 10 minutes the mean
\* is 11/3, so 10 is above twice the mean and both 0.5 are below half the
\* mean: all three items are extreme and pace_consistency is 1 - 3/3 = 0.
C6_AllThreeExtreme ==
    (PaceScenario /\ returned.call = "evaluate_time_management") =>
        returned.value.pace_consistency = F(0)

\* C6 as stated: for plan durations 0.5, 0.5 and 10 minutes only the 10 is
\* extreme and pace_consistency is 1 - 1/3.
C6_OneExtreme ==
    (PaceScenario /\ returned.call = "evaluate_time_management") =>
        returned.value.pace_consistency = R(2, 3)

\* evaluate_time_management has returned for the plan of 0.5, 0.5 and 10
\* minutes, 11 minutes in total
C6_PaceScenarioScored ==
    /\ PaceScenario
    /\ returned.call = "evaluate_time_management"
    /\ returned.value.total_minutes = F(11)

C8_FixedWeights ==
    returned.call \in {"evaluate_all", "evaluate_from_files"} =>
        /\ returned.value.weights =
               [content_consistency |-> R(30, 100), structure |-> R(25, 100),
                language_quality |-> R(20, 100), detail_richness |-> R(15, 100),
                time_management |-> R(10, 100)]
        /\ RSumSeq([i \in 1..Len(DimensionNames) |->
                       returned.value.weights[DimensionNames[i]]]) = F(1)
        /\ FSumSeq([i \in 1..Len(DimensionNames) |->
                       DoubleOf(returned.value.weights[DimensionNames[i]])])
               = Double(1, 1)

\* evaluate_all has returned the weights for a payload with a plan and a
\* script of several items
C8_WeightsReturned ==
    /\ returned.call = "evaluate_all"
    /\ Len(plan) > 1 /\ Len(script) > 1
    /\ DOMAIN returned.value.weights = Range(DimensionNames)
    /\ returned.value.weights.content_consistency = R(3, 10)

\* the overall score of dimension d handed to the aggregation
Dimension(d) == fn_args[1][d].overall_score

\* the doubles of 0.30, 0.25, 0.20, 0.15 and 0.10
Literals ==
    <<Double(30, 100), Double(25, 100), Double(20, 100), Double(15, 100),
      Double(10, 100)>>

\* C9, as the code has it: the overall score is the sum, taken from the left
\* in double arithmetic, of overall_score * weight over the five dimensions;
\* it lies in [0, 1] and is 1.0 when every dimension is 1.0; and it is 1.0
\* only if every dimension is at least 1 - 2^-50 (the rounding of the sum
\* hides a smaller shortfall).
C9_RoundedWeightedSum ==
    fn_ret # <<>> =>
        /\ fn_ret[1] =
               FAdd(FAdd(FAdd(FAdd(
                   FMul(Dimension("content_consistency"), Literals[1]),
                   FMul(Dimension("structure"), Literals[2])),
                   FMul(Dimension("language_quality"), Literals[3])),
                   FMul(Dimension("detail_richness"), Literals[4])),
                   FMul(Dimension("time_management"), Literals[5]))
        /\ FLe(Zero, fn_ret[1]) /\ FLe(fn_ret[1], One)
        /\ (\A d \in Range(DimensionNames) : Dimension(d) = One) => fn_ret[1] = One
        /\ fn_ret[1] = One =>
               \A d \in Range(DimensionNames) : FLe(BelowOne(8), Dimension(d))

\* C9 as stated: the overall score is 1.0 only if every dimension is 1.0.
C9_OneOnlyIfAllOne ==
    (fn_ret # <<>> /\ fn_ret[1] = One) =>
        \A d \in Range(DimensionNames) : Dimension(d) = One

\* the aggregation has returned 1.0 for a structure score of
\* 0.9999999999999999 (the double next below 1.0), the other four being 1.0
C9_RoundedUpToOne ==
    /\ fn_ret = <<One>>
    /\ Dimension("structure") = BelowOne(1)
    /\ \A d \in Range(DimensionNames) \ {"structure"} : Dimension(d) = One

\* the grades from the lowest to the highest: F < D < C < C+ < B < B+ < A < A+
GradeOrder ==
    <<GradeF, GradeD, GradeC, GradeCPlus, GradeB, GradeBPlus, GradeA, GradeAPlus>>

GradeRank(grade) == CHOOSE i \in 1..Len(GradeOrder) : GradeOrder[i] = grade

\* C10: for two scores a >= b, the grade _get_grade gives a ranks at least
\* as high as the grade it gives b; every grade it gives is one of the eight.
C10_GradeMonotone ==
    fn_ret # <<>> =>
        /\ \A i \in 1..2 : \E j \in 1..Len(GradeOrder) : fn_ret[1][i] = GradeOrder[j]
        /\ RGe(fn_args[1], fn_args[2]) =>
               GradeRank(fn_ret[1][1]) >= GradeRank(fn_ret[1][2])

\* the scores 0.85 and 0.65 have been graded A and C
C10_HigherScoreHigherGrade ==
    /\ fn_args = <<R(85, 100), R(65, 100)>>
    /\ fn_ret = << <<GradeA, GradeC>> >>

\* the seven lower bounds of the grades above F, in hundredths
GradeBounds == {60, 65, 70, 75, 80, 85, 90}

\* the grade whose rank is one more than the number of lower bounds the
\* score has reached
GradeByBounds(score) ==
    GradeOrder[1 + Cardinality({b \in GradeBounds : RLe(R(b, 100), score)})]

\* C11: every score in [0, 1] gets exactly one of the eight grades, the
\* highest one whose lower bound it has reached (>= 0.90 A+, >= 0.85 A,
\* >= 0.80 B+, >= 0.75 B, >= 0.70 C+, >= 0.65 C, >= 0.60 D, otherwise F);
\* a score exactly on a bound gets the grade that starts there.
C11_GradeByThreshold ==
    fn_ret # <<>> =>
        \A i \in 1..2 :
            /\ Cardinality({j \in 1..Len(GradeOrder) : GradeOrder[j] = fn_ret[1][i]}) = 1
            /\ fn_ret[1][i] = GradeByBounds(fn_args[i])

\* the scores 0.90 and 0.60, each exactly on a bound, have been graded A+ and D
C11_BoundGetsHigherGrade ==
    /\ fn_args = <<R(90, 100), R(60, 100)>>
    /\ fn_ret = << <<GradeAPlus, GradeD>> >>

\* the share of the speech keywords in target that source lacks
NovelRatio(source, target) ==
    R(Cardinality(target \ source), Cardinality(target))

\* C12: coverage(source, target) is the number of distinct source items
\* that are in target over the number of distinct source items; it is 1.0
\* for an empty source whatever the target, and 1.0 whenever every source
\* item is in target.
C12_CoverageOfSource ==
    (fn_ret # <<>> /\ fn_ret[1].fn = "_calculate_coverage") =>
        LET source == fn_args[1]
            target == fn_args[2]
            inBoth == Cardinality({k \in source : k \in target})
        IN  /\ source = {} => fn_ret[1].value = F(1)
            /\ source # {} => fn_ret[1].value = R(inBoth, Cardinality(source))
            /\ source \subseteq target => fn_ret[1].value = F(1)

\* the coverage of an empty source by an empty target has been computed
C12_EmptySourceEmptyTarget ==
    /\ fn_args[1] = {}
    /\ fn_args[2] = {}
    /\ fn_ret # <<>>
    /\ fn_ret[1].fn = "_calculate_coverage"
    /\ fn_ret[1].value = F(1)

\* C13: the two linear pieces of the hallucination remap agree at the ratio
\* 0.3, where both give 0.3; the risk of a ratio is never farther from 0.3
\* than the ratio is, on either side, so the mapping has no jump there.
C13_PiecesMeet ==
    /\ MapBelow(R(3, 10)) = R(3, 10)
    /\ MapAbove(R(3, 10)) = R(3, 10)
    /\ (fn_ret # <<>> /\ fn_ret[1].fn = "_detect_hallucination_risk" /\ fn_args[2] # {}) =>
           LET ratio == NovelRatio(fn_args[1], fn_args[2])
               risk == fn_ret[1].value
           IN  /\ ratio = R(3, 10) => risk = R(3, 10)
               /\ RGt(ratio, R(3, 10)) =>
                      /\ RGt(risk, R(3, 10))
                      /\ RLe(RSub(risk, R(3, 10)), RSub(ratio, R(3, 10)))
               /\ RLe(ratio, R(3, 10)) =>
                      /\ RLe(risk, R(3, 10))
                      /\ RLe(RSub(R(3, 10), risk), RSub(R(3, 10), ratio))

\* the risk of a speech with ten keywords, three of them not on the slides,
\* has been computed as 0.3
C13_RatioAtBreakpoint ==
    /\ fn_args[1] = 1..7
    /\ fn_args[2] = 1..10
    /\ fn_ret = <<[fn |-> "_detect_hallucination_risk", value |-> R(3, 10)]>>

\* C14: two speeches over the same slides that differ only in their ratio
\* of novel keywords, both ratios at most 0.3, get the same contribution of
\* the hallucination risk to the content-consistency overall_score.
C14_FirstThirtyPercentFree ==
    (/\ fn_ret # <<>>
     /\ fn_ret[1].fn = "evaluate_content_consistency"
     /\ fn_args[2] # {}
     /\ fn_args[3] # {}
     /\ RLe(NovelRatio(fn_args[1], fn_args[2]), R(3, 10))
     /\ RLe(NovelRatio(fn_args[1], fn_args[3]), R(3, 10))
     /\ fn_ret[1].value.keyword_coverage = fn_ret[1].other.keyword_coverage) =>
        /\ RSub(F(1), fn_ret[1].value.hallucination_risk_score)
               = RSub(F(1), fn_ret[1].other.hallucination_risk_score)
        /\ fn_ret[1].value.overall_score = fn_ret[1].other.overall_score

\* no value of a scorer's dictionary is a division by zero
NoZeroDivision(scores) == \A k \in DOMAIN scores : scores[k] # ZeroDivisionError

\* C15: on an evaluator whose slide text has no words, whatever its script,
\* every scorer returns without a division by zero, the expansion ratio is
\* 0.0 and the keyword coverage is 1.0; so it is for the empty slide text
\* and a script of one item with text.
C15_NoSlideWords ==
    (phase = "ready" /\ Split(slides_content) = <<>>) =>
        /\ returned.call \in ScorerCalls => NoZeroDivision(returned.value)
        /\ returned.call = "evaluate_detail_richness" =>
               returned.value.expansion_ratio_score = F(0)
        /\ returned.call = "evaluate_content_consistency" =>
               returned.value.keyword_coverage = F(1)
        /\ returned.call = "evaluate_all" =>
               /\ \A d \in Range(DimensionNames) : NoZeroDivision(returned.value[d])
               /\ returned.value.overall_score # ZeroDivisionError
               /\ returned.value.detail_richness.expansion_ratio_score = F(0)
               /\ returned.value.content_consistency.keyword_coverage = F(1)

\* evaluate_all has returned for the empty slide text and the script of one
\* item with text
C15_EmptySlidesOneItem ==
    /\ pdf_text = SlidesEmpty
    /\ speech_json = PayloadOneItem
    /\ Len(script) = 1
    /\ script[1]["text"] # <<>>
    /\ returned.call = "evaluate_all"
    /\ returned.value.detail_richness.expansion_ratio_score = F(0)
    /\ returned.value.content_consistency.keyword_coverage = F(1)

\* the characters that end a sentence: . ! ? and their CJK forms
SentenceTerminators == {".", "!", "?", "u3002", "uff01", "uff1f"}

\* a transition phrase, in any case, lies in text before the first of stops
LeadsWithTransition(text, stops) ==
    \E k \in 1..Len(transition_phrases) :
        \E i \in 1..(Len(text) - Len(transition_phrases[k]) + 1) :
            /\ SubSeq(Lower(text), i, i + Len(transition_phrases[k]) - 1)
                   = transition_phrases[k]
            /\ \A j \in 1..(i + Len(transition_phrases[k]) - 1) : text[j] \notin stops

\* the share of the items after the first of items that lead with a
\* transition, 1.0 for at most one item
TransitionShare(items, stops) ==
    IF Len(items) <= 1 THEN F(1)
    ELSE R(Cardinality({i \in 2..Len(items) : LeadsWithTransition(items[i].text, stops)}),
           Len(items) - 1)

\* C16: transitions is the number of script items other than the first
\* whose text up to its first sentence terminator contains a transition
\* phrase, in any case, over the number of items less one, and 1.0 for at
\* most one item.
C16_LeadingClause ==
    fn_ret # <<>> => fn_ret[1] = TransitionShare(fn_args[1], SentenceTerminators)

\* the same with the full stop as the only character that ends the leading
\* clause
C16_UpToFullStop ==
    fn_ret # <<>> => fn_ret[1] = TransitionShare(fn_args[1], {"."})

\* the rules of the suggestions in the order of the list, each
\* <<dimension, sub-metric>>
SuggestionRules ==
    << <<1, "keyword_coverage">>, <<1, "slide_title_coverage">>,
       <<1, "hallucination_risk_score">>, <<1, "fact_accuracy">>,
       <<2, "coherence_score">>, <<2, "transition_score">>,
       <<2, "time_balance_score">>, <<3, "conversational_score">>,
       <<3, "clarity_score">>, <<3, "professionalism_score">>,
       <<4, "example_usage_score">>, <<4, "explanation_quality">>,
       <<4, "expansion_ratio_score">>, <<5, "duration_appropriateness">> >>

\* the score below which a sub-metric is a deficiency (above which, for the
\* hallucination risk)
DeficiencyBound ==
    [keyword_coverage |-> R(6, 10), slide_title_coverage |-> R(7, 10),
     hallucination_risk_score |-> R(4, 10), fact_accuracy |-> R(7, 10),
     coherence_score |-> R(7, 10), transition_score |-> R(5, 10),
     time_balance_score |-> R(6, 10), conversational_score |-> R(5, 10),
     clarity_score |-> R(6, 10), professionalism_score |-> R(6, 10),
     example_usage_score |-> R(4, 10), explanation_quality |-> R(4, 10),
     expansion_ratio_score |-> R(5, 10), duration_appropriateness |-> R(6, 10)]

\* the score of the sub-metric of rule r in the results the feedback is for
ScoreOfRule(r) ==
    fn_args[1][DimensionNames[SuggestionRules[r][1]]][SuggestionRules[r][2]]

RuleFires(r) ==
    IF SuggestionRules[r][2] = "hallucination_risk_score"
    THEN RGt(ScoreOfRule(r), DeficiencyBound[SuggestionRules[r][2]])
    ELSE RLt(ScoreOfRule(r), DeficiencyBound[SuggestionRules[r][2]])

\* the messages of the suggestion lines, in order
SuggestionMessages ==
    [i \in 1..Len(fn_ret[1].suggestions) |-> fn_ret[1].suggestions[i][2]]

IsClosing(msg) == msg[1] = "closing"
IsAllMet(msg) == msg = <<"all_targets_met">>
IsIssue(msg) == ~IsClosing(msg) /\ ~IsAllMet(msg)

\* the lines at which rule r has its message
LinesOfRule(r) ==
    {i \in 1..Len(SuggestionMessages) :
        /\ IsIssue(SuggestionMessages[i])
        /\ SuggestionMessages[i][2] = SuggestionRules[r][2]}

\* C17: the suggestions come in the fixed order content consistency,
\* structure, language, detail, time; a rule whose score crosses its
\* threshold has exactly one message and no other rule has any; the
\* all-targets-met message is there if and only if no rule fires, and is
\* then the single suggestion, with nothing but a closing remark after it.
C17_SuggestionOrder ==
    fn_ret # <<>> =>
        /\ \A i \in 1..Len(fn_ret[1].suggestions) : fn_ret[1].suggestions[i][1] = i
        /\ \A r \in 1..Len(SuggestionRules) :
               Cardinality(LinesOfRule(r)) = IF RuleFires(r) THEN 1 ELSE 0
        /\ \A i \in 1..Len(SuggestionMessages) :
               IsIssue(SuggestionMessages[i]) =>
                   \E r \in 1..Len(SuggestionRules) : i \in LinesOfRule(r)
        /\ \A r, q \in 1..Len(SuggestionRules) :
               \A i \in LinesOfRule(r), j \in LinesOfRule(q) :
                   /\ r < q => i < j
                   /\ SuggestionRules[r][1] < SuggestionRules[q][1] => i < j
        /\ (\E i \in 1..Len(SuggestionMessages) : IsAllMet(SuggestionMessages[i]))
               <=> (\A r \in 1..Len(SuggestionRules) : ~RuleFires(r))
        /\ \A i \in 1..Len(SuggestionMessages) :
               IsAllMet(SuggestionMessages[i]) =>
                   /\ i = 1
                   /\ \A j \in 2..Len(SuggestionMessages) :
                          /\ j = 2
                          /\ IsClosing(SuggestionMessages[j])

\* suggestions have been generated with a content-consistency issue first
\* and the time issue last before the closing remark
C17_ContentFirstTimeLast ==
    /\ fn_ret # <<>>
    /\ Len(SuggestionMessages) >= 4
    /\ SuggestionMessages[1][2] = "keyword_coverage"
    /\ SuggestionMessages[Len(SuggestionMessages) - 1][2] = "duration_appropriateness"
    /\ IsClosing(SuggestionMessages[Len(SuggestionMessages)])

\* the lines of the suggestions that are closing remarks
ClosingLines ==
    {i \in 1..Len(SuggestionMessages) : IsClosing(SuggestionMessages[i])}

\* the closing remark that goes with the overall score of the results, by
\* the two bounds 0.70 and 0.85
ClosingFor(overall_score) ==
    IF RLt(overall_score, R(70, 100)) THEN <<"closing", "content_and_structure">>
    ELSE IF RLt(overall_score, R(85, 100)) THEN <<"closing", "language_and_detail">>
    ELSE <<"closing", "none">>

\* C18, as the code has it: below an overall score of 0.85 the suggestions
\* end with exactly one closing remark, one for a score below 0.70 and
\* another for a score from 0.70 up to but not including 0.85; for a score of
\* 0.85 and more there is no closing remark at all.
C18_ClosingBelowBound ==
    fn_ret # <<>> =>
        /\ RLt(fn_args[1].overall_score, R(85, 100)) =>
               /\ ClosingLines = {Len(SuggestionMessages)}
               /\ SuggestionMessages[Len(SuggestionMessages)]
                      = ClosingFor(fn_args[1].overall_score)
        /\ RGe(fn_args[1].overall_score, R(85, 100)) => ClosingLines = {}

\* C18 as stated: the suggestions always end with exactly one closing
\* remark, whatever the overall score.
C18_AlwaysOneClosing ==
    fn_ret # <<>> =>
        /\ ClosingLines = {Len(SuggestionMessages)}
        /\ Len(SuggestionMessages) >= 2

\* suggestions have been generated for an overall score of 0.85 or more:
\* an issue is listed and no closing remark follows it
C18_HighScoreNoClosing ==
    /\ fn_ret # <<>>
    /\ RGe(fn_args[1].overall_score, R(85, 100))
    /\ IsIssue(SuggestionMessages[Len(SuggestionMessages)])

\* the sub-metrics that have both a suggestion rule and a strength
BothSided ==
    {"keyword_coverage", "fact_accuracy", "hallucination_risk_score",
     "coherence_score", "transition_score", "conversational_score", "clarity_score",
     "professionalism_score", "example_usage_score", "explanation_quality",
     "duration_appropriateness"}

\* the sub-metric is named by a suggestion, the sub-metric is named among
\* the strengths
Suggested(metric) ==
    \E i \in 1..Len(SuggestionMessages) :
        IsIssue(SuggestionMessages[i]) /\ SuggestionMessages[i][2] = metric
Praised(metric) ==
    \E i \in 1..Len(fn_ret[1].strengths) : fn_ret[1].strengths[i] = metric

\* C19: in one feedback no sub-metric is both the subject of a suggestion
\* and listed as a strength: the deficiency and the strength thresholds of
\* keyword_coverage, fact_accuracy, hallucination_risk_score,
\* coherence_score, transition_score, conversational_score, clarity_score,
\* professionalism_score, example_usage_score, explanation_quality and
\* duration_appropriateness do not overlap.
C19_NeverBoth ==
    fn_ret # <<>> => \A metric \in BothSided : ~(Suggested(metric) /\ Praised(metric))

\* feedback has been generated that names the clarity in a suggestion and
\* the keyword coverage among the strengths
C19_SuggestedAndPraised ==
    /\ fn_ret # <<>>
    /\ Suggested("clarity_score")
    /\ Praised("keyword_coverage")
    /\ fn_args[1].language_quality.clarity_score = R(55, 100)

\* what the call returns on an evaluator constructed alone from the slide
\* text and the i-th speech file of the batch
Alone(i, call) == ValueOf(SelfOf(Constructed[<<fn_args[1], fn_args[2][i]>>]), call)

C21_InputsAndResultsKept ==
    [][phase = "ready" =>
           /\ slides_content' = slides_content
           /\ plan' = plan
           /\ script' = script
           /\ calls > 0 => first_result' = first_result]_vars

\* a report has been generated after evaluate_all returned MaxCalls times on
\* an evaluator with a plan and a script, and the first result is still
\* the evaluation of the fields
C21_ReportAfterEvaluations ==
    /\ calls = MaxCalls
    /\ returned.call = "generate_report"
    /\ plan # <<>>
    /\ script # <<>>
    /\ first_result = Results(Self)

\* C22: a payload inside a leading fence of three backticks, with or without
\* "json", and a trailing fence of three backticks, with any white space
\* around the fences and the body, constructs the same plan and script and
\* evaluates to the same result as the body alone; a payload without fence
\* is parsed as it is.
C22_FenceIgnored ==
    fn_ret # <<>> =>
        /\ fn_ret[1].fenced.raised = fn_ret[1].plain.raised
        /\ fn_ret[1].fenced.plan = fn_ret[1].plain.plan
        /\ fn_ret[1].fenced.script = fn_ret[1].plain.script
        /\ fn_ret[1].fenced.result = fn_ret[1].plain.result

\* a three-item payload in a json fence with white space on every side has
\* been constructed and evaluated
C22_JsonFenceEvaluated ==
    /\ fn_ret # <<>>
    /\ fn_args[2] = PayloadGood
    /\ fn_args[3][1] = Fence \o S("json")
    /\ \A i \in 1..4 : fn_args[4][i] # <<>>
    /\ fn_ret[1].fenced.raised = "None"
    /\ Len(fn_ret[1].fenced.plan) = 3
    /\ fn_ret[1].fenced.result # <<>>

\* the minutes of a duration string when its unit is classified as stated:
\* seconds when the string contains "second" or ends in "s" without a
\* "minute" or "hour" marker, hours when it contains "hour" or ends in "h",
\* minutes otherwise, and 0.0 for an empty string or one without a number
MinutesAsStated(duration_str0) ==
    LET Seconds(text) ==
            \/ Contains(text, S("second"))
            \/ /\ EndsWith(text, S("s"))
               /\ ~Contains(text, S("minute"))
               /\ ~Contains(text, S("hour"))
        Hours(text) == Contains(text, S("hour")) \/ EndsWith(text, S("h"))
        Convert(text, number) ==
            IF Seconds(text) THEN RDiv(number, F(60))
            ELSE IF Hours(text) THEN RMul(number, F(60))
            ELSE number
        Parse(text) ==
            IF NumberSearch(text) = None THEN F(0)
            ELSE Convert(text, MatchedFloat(text, NumberSearch(text)))
    IN  IF duration_str0 = <<>> THEN F(0) ELSE Parse(Strip(Lower(duration_str0)))

\* C23 as stated: _parse_duration returns the number divided by 60 only for
\* a string that contains "second" or ends in a bare "s" without a "minute"
\* or "hour" marker, the number times 60 for one that contains "hour" or
\* ends in "h" ("2 hours" is 120), the number itself otherwise ("1.5
\* minutes" is 1.5), and 0.0 for an empty string or one without a number.
C23_UnitAsStated ==
    fn_ret # <<>> => fn_ret[1] = MinutesAsStated(fn_args[1])

\* _parse_duration has returned for "2 hours"
C23_TwoHoursParsed ==
    /\ fn_ret # <<>>
    /\ fn_args[1] = S("2 hours")

\* C24 as stated: an item without a usable duration put into a plan of timed
\* items changes neither the time balance, the time distribution nor the
\* pace consistency, and does not lower the duration appropriateness: a plan
\* at 1.0 stays at 1.0.
C24_UntimedIgnored ==
    fn_ret # <<>> =>
        /\ fn_ret[1].untimed.time_balance = fn_ret[1].timed.time_balance
        /\ fn_ret[1].untimed.time_management.time_distribution_score
               = fn_ret[1].timed.time_management.time_distribution_score
        /\ fn_ret[1].untimed.time_management.pace_consistency
               = fn_ret[1].timed.time_management.pace_consistency
        /\ RGe(fn_ret[1].untimed.time_management.duration_appropriateness,
               fn_ret[1].timed.time_management.duration_appropriateness)

\* the part of C24 about the samples: an item without a usable duration
\* changes neither the time balance, the time distribution nor the pace
\* consistency.
C24_UntimedNotSampled ==
    fn_ret # <<>> =>
        /\ fn_ret[1].untimed.time_balance = fn_ret[1].timed.time_balance
        /\ fn_ret[1].untimed.time_management.time_distribution_score
               = fn_ret[1].timed.time_management.time_distribution_score
        /\ fn_ret[1].untimed.time_management.pace_consistency
               = fn_ret[1].timed.time_management.pace_consistency

\* two items of one minute each, at duration appropriateness 1.0, have been
\* scored with an item without duration after them
C24_UntimedAddedToInRange ==
    /\ fn_ret # <<>>
    /\ Len(fn_args[1]) = 2
    /\ \A i \in 1..2 : fn_args[1][i].duration = S("1 minute")
    /\ "duration" \notin DOMAIN fn_args[2]
    /\ fn_args[3] = 2
    /\ fn_ret[1].timed.time_management.duration_appropriateness = F(1)

\* the tokens of a title that are longer than three characters
LongTokens(title) == SelectSeq(WordRuns(Lower(title)), LAMBDA word : Len(word) > 3)

\* the non-empty titles of the plan
PlanTitles(self) ==
    LET titled == SelectSeq(self.plan, LAMBDA p : Get(p, "title", <<>>) # <<>>)
    IN  [i \in 1..Len(titled) |-> titled[i]["title"]]

\* the title coverage as stated: a title is covered when at least half of
\* its tokens longer than three characters occur in the lowercase speech
\* text, the shorter tokens counting neither for nor against
TitleCoverageAsStated(self) ==
    LET Covered(title) ==
            2 * CountIf(LongTokens(title),
                        LAMBDA word : Contains(Lower(speech_text(self)), word))
                >= Len(LongTokens(title))
    IN  IF PlanTitles(self) = <<>> THEN F(1)
        ELSE R(CountIf(PlanTitles(self), Covered), Len(PlanTitles(self)))

\* C25 as stated: where every title of the plan has a token longer than
\* three characters, slide_title_coverage is the share of the titles of
\* which at least half of those tokens occur in the speech text ("The Big
\* Problem" is covered by a speech that contains "problem"), and it is 1.0
\* for a plan without titles.
C25_LongTokensDecide ==
    (/\ returned.call = "evaluate_content_consistency"
     /\ \A i \in 1..Len(PlanTitles(Self)) : LongTokens(PlanTitles(Self)[i]) # <<>>) =>
        returned.value.slide_title_coverage = TitleCoverageAsStated(Self)

\* evaluate_content_consistency has returned for a plan with the title "The
\* Big Problem" and a speech that contains "problem"
C25_BigProblemScored ==
    /\ returned.call = "evaluate_content_consistency"
    /\ \E i \in 1..Len(plan) : plan[i].title = S("The Big Problem")
    /\ Contains(Lower(speech_text(Self)), S("problem"))

\* min(count / (itemCount / per), 1.0), the quotient as stated
CappedQuotient(count, itemCount, per) ==
    RMin(RDiv(F(count), RDiv(F(itemCount), per)), F(1))

\* C26: for a script of itemCount >= 1 items with count example indicators,
\* _check_example_usage returns min(count / (itemCount / 4.5), 1.0), and with
\* count explanation markers _evaluate_explanations returns
\* min(count / (itemCount / 3), 1.0); for the empty script both return 0.0
\* and neither divides by zero.
C26_FloorChangesNothing ==
    fn_ret # <<>> =>
        /\ fn_ret[1].value # ZeroDivisionError
        /\ fn_args[1] = 0 => fn_ret[1].value = F(0)
        /\ (fn_args[1] >= 1 /\ fn_ret[1].fn = "_check_example_usage") =>
               fn_ret[1].value = CappedQuotient(fn_args[2], fn_args[1], R(45, 10))
        /\ (fn_args[1] >= 1 /\ fn_ret[1].fn = "_evaluate_explanations") =>
               fn_ret[1].value = CappedQuotient(fn_args[3], fn_args[1], F(3))

\* _check_example_usage has returned 1.0 for two indicators in a script of
\* two items, where the floor of 1 replaces the ideal count 2 / 4.5
C26_FloorInForce ==
    /\ fn_ret # <<>>
    /\ fn_ret[1].fn = "_check_example_usage"
    /\ fn_args[1] = 2
    /\ fn_args[2] = 2
    /\ fn_ret[1].value = F(1)

\* C27: organization_score depends on the number of plan items only: it is
\* 0 for an empty plan, 2/3 for a plan of one or two items and 1.0 for a
\* plan of three or more, whatever the titles are.
C27_OrganizationByLength ==
    returned.call = "evaluate_structure" =>
        returned.value.organization_score =
            IF Len(plan) = 0 THEN F(0)
            ELSE IF Len(plan) <= 2 THEN R(2, 3)
            ELSE F(1)

\* evaluate_structure has returned 1.0 for a plan of four items of which
\* neither the first nor the last is titled as introduction or conclusion
C27_UntitledEndsScored ==
    /\ returned.call = "evaluate_structure"
    /\ Len(plan) = 4
    /\ plan[1].title = S("Results")
    /\ plan[4].title = S("More")
    /\ returned.value.organization_score = F(1)

\* the double of the share of new keywords k / n
ShareDouble(q) == IF q[2] = 0 THEN Zero ELSE Double(q[1], q[2])

\* the doubles next above and next below a double x > 0
NextUp(x) ==
    IF BitLen(BAdd(x.m, <<1>>)) > MantissaBits
    THEN [m |-> BShr(BAdd(x.m, <<1>>), 1)[1], e |-> x.e + 1]
    ELSE [m |-> BAdd(x.m, <<1>>), e |-> x.e]
NextDown(x) ==
    IF BitLen(BSub(x.m, <<1>>)) < MantissaBits
    THEN [m |-> BAdd(BScale(BSub(x.m, <<1>>), 2), <<1>>), e |-> x.e - 1]
    ELSE [m |-> BSub(x.m, <<1>>), e |-> x.e]

\* C28, as the code has it: both pieces of the remap have slope 1 but are
\* computed in doubles, so the risk is the ratio of new keywords or one of
\* the two doubles next to it; it is 0.0 for ratio 0 and for a speech
\* without keywords, 1.0 for ratio 1, and it never decreases when the ratio
\* grows.
C28_RiskNextToRatio ==
    fn_ret # <<>> =>
        /\ fn_args[1][1] = 0 => fn_ret[1].risk = Zero
        /\ fn_args[1][1] > 0 =>
               fn_ret[1].risk \in {ShareDouble(fn_args[1]),
                                   NextUp(ShareDouble(fn_args[1])),
                                   NextDown(ShareDouble(fn_args[1]))}
        /\ (fn_args[1][1] > 0 /\ fn_args[1][1] = fn_args[1][2]) => fn_ret[1].risk = One
        /\ FLe(fn_ret[1].risk, fn_ret[1].other)

\* C28 as stated: the risk equals the ratio of new keywords itself.
C28_RiskIsRatio ==
    fn_ret # <<>> => fn_ret[1].risk = ShareDouble(fn_args[1])

\* the risk has been computed for 5 new keywords of 6 and for 6 of 7, and
\* the first is the double next above 5/6
C28_RiskAboveRatio ==
    /\ fn_ret # <<>>
    /\ fn_args = <<<<5, 6>>, <<6, 7>>>>
    /\ fn_ret[1].risk = NextUp(Double(5, 6))

\* C29 as stated: where the suggestions have the all-targets-met message,
\* the overall score is at least 0.70: the closing remark for a score
\* below 0.70 does not follow the message, and the grade is C+ or better.
C29_AllMetMeansPassing ==
    (/\ fn_ret # <<>>
     /\ \E i \in 1..Len(SuggestionMessages) : IsAllMet(SuggestionMessages[i])) =>
        /\ RGe(fn_args[1].overall_score, R(70, 100))
        /\ \A i \in 1..Len(SuggestionMessages) :
               SuggestionMessages[i] # <<"closing", "content_and_structure">>
        /\ fn_args[1].grade \in {GradeAPlus, GradeA, GradeBPlus, GradeB, GradeCPlus}

\* the suggestions have been generated for results in which no rule fires
\* and which have an overall score below 0.70
C29_AllMetBelowBound ==
    /\ fn_ret # <<>>
    /\ IsAllMet(SuggestionMessages[1])
    /\ \A r \in 1..Len(SuggestionRules) : ~RuleFires(r)
    /\ RLt(fn_args[1].overall_score, R(70, 100))

\* where a call of evaluate_speech stands after its requests
Requested == llm.pc \in {"return", "raised", "done"}

\* the API requests of one call of evaluate_speech
BoundedRetry ==
    /\ llm.requests <= 2
    /\ llm.requests = 2 => llm.caught \in RetriedErrors
    /\ Requested => llm.requests = (IF llm.caught \in RetriedErrors THEN 2 ELSE 1)
    /\ (llm.pc = "done" /\ llm.raised # "None") => llm.result = <<NoResult>>

\* C30: a call of evaluate_speech issues at most two API requests: the
\* second one exactly when the first raised RateLimitError or
\* APITimeoutError; an error of the second request, or another error of
\* the first, leaves completion without a further request, and evaluate_speech
\* returns None.  No step of the rule-based evaluator issues a request, and
\* no request changes the rule-based evaluator.
C30_RetryOnceOnly ==
    [][/\ BoundedRetry'
       /\ llm.raised # "None" => llm'.requests = llm.requests
       /\ eval_vars' # eval_vars => llm' = llm
       /\ llm' # llm => eval_vars' = eval_vars]_vars

\* evaluate_speech has returned None after two requests: the first raised
\* RateLimitError, the retry APITimeoutError; the rule-based evaluator has
\* generated a report meanwhile
C30_RetryFailed ==
    /\ llm.pc = "done"
    /\ llm.requests = 2
    /\ llm.caught = "RateLimitError"
    /\ llm.raised = "APITimeoutError"
    /\ llm.result = <<NoResult>>
    /\ returned.call = "generate_report"

====
